---- MODULE Spec2Model ----
(***************************************************************************)
(* A model of blogwarrior's table store (src/src/table.rs), its            *)
(* last-writer-wins merge and its git-backed sync (src/src/git.rs,         *)
(* src/src/commands/sync.rs).                                              *)
(*                                                                         *)
(* Twelve specifications share the variables:                              *)
(*   SpecTable  one Table<T>: upsert, delete, load and the file-system     *)
(*              steps of save, with write failures and crashes;            *)
(*   SpecMerge  merge_remote as a function of row maps;                    *)
(*   SpecSync   two clones and one remote running cmd_sync;                *)
(*   SpecStore  one clone: Store::transaction with failing closures and    *)
(*              saves, and the clean check of sync and of the commands;    *)
(*   SpecRows   the calls on one table, from every bounded directory;      *)
(*   SpecGit    is_clean and auto_commit over files written into a clone;  *)
(*   SpecOffline  cmd_sync without a repository and without a remote;      *)
(*   SpecLoad   Table::load on directories with unreadable files;          *)
(*   SpecInstance  one Store instance running transaction after            *)
(*              transaction;                                               *)
(*   SpecQuiesce  two clones with the same rows that only sync, each sync  *)
(*              weakly fair;                                               *)
(*   SpecRetry  a clone that never fetched beside a clone that pushed,     *)
(*              each sync weakly fair;                                     *)
(*   SpecSaveFail  one clone whose pull transaction can fail in a save.    *)
(***************************************************************************)
EXTENDS Integers, Sequences, FiniteSets, TLC

VARIABLES
    items,       \* Table::items, the in-memory map id -> Row
    disk,        \* the table directory: file name -> sequence of JSON lines
    pc,          \* position of the running save ("idle" when none runs)
    shards,      \* save's local `shards`: shard key -> rows sorted by id
    pending,     \* shard keys whose temporary file is not yet written
    tmp_paths,   \* save's local `tmp_paths`, in the order they were written
    failing,     \* the shard whose temporary write failed (<<>> when none)
    clock,       \* the wall clock read by Utc::now()
    ops,         \* how many upserts and deletes were applied so far
    lastResult,  \* what the last finished save returned: "none", "ok", "err"
    preSave,     \* history: the tables load could yield when save started
    preDisk,     \* history: the directory when save started
    mA, mB, mC,  \* SpecMerge: three row maps
    mOut,        \* SpecMerge: the table produced by the last merge step
    mStep,       \* SpecMerge: which merge step produced mOut
    commits,     \* SpecSync: the commit objects created so far
    origin,      \* the commit of the remote's branch (NoCommit: no branch yet)
    head,        \* per clone: the commit of HEAD (NoCommit: unborn)
    tracking,    \* per clone: the commit of refs/remotes/origin/<branch>
    wt,          \* per clone: the working tree, table -> directory
    mem,         \* per clone: the Store of the running sync, table -> Table
    spc,         \* per clone: the position of the running cmd_sync
    log,         \* history: the steps the running sync of a clone took so far
    scen,        \* history: progress through the two-clone scenario
    edits,       \* how many commands changed a store so far
    returned,    \* history: the call that returned last, and what it returned
    repo,        \* per clone: "none" without a repository, "local" with a
                 \* repository that has no remote, "remote" with origin configured
    self_shard_characters  \* the field shard_characters of the table in items

tableVars == <<items, disk, pc, shards, pending, tmp_paths, failing, clock, ops,
               lastResult, preSave, preDisk>>
mergeVars == <<mA, mB, mC, mOut, mStep>>
syncVars == <<commits, origin, head, tracking, wt, mem, spc, log, scen, edits>>
vars == <<tableVars, mergeVars, syncVars, returned, repo, self_shard_characters>>

------------------------------------------------------------------------------
(* Bounds *)

\* largest value the wall clock reaches
MaxClock == 2
\* how many upserts and deletes one behaviour applies
MaxOps == 3
\* number of hex digits kept of a digest
IdLength == 2
\* largest timestamp carried by a row handed to merge_remote
MaxTs == 2

\* how many calls on the table one behaviour of SpecRows makes
MaxCalls == 4

\* how many files one behaviour of SpecGit writes or removes
MaxWrites == 3

\* how many commit objects one behaviour creates
MaxCommits == 7

\* how many feed add / feed rm commands and successful pulls one behaviour runs
MaxEdits == 2

\* FeedItem::SHARD_CHARACTERS
SHARD_CHARACTERS == 1
\* FeedSource::SHARD_CHARACTERS
FEEDS_SHARD_CHARACTERS == 0

Keys == {"a", "b", "c"}
Titles == {"x", "y"}

\* Option::None of updated_at; Rust orders None before every Some
None == 0

Replicas == {"A", "B"}
Tables == {"feeds", "posts"}

\* no commit: an unborn HEAD, a missing remote-tracking ref, a remote without branch
NoCommit == [parents |-> <<>>, tree |-> <<>>, by |-> "nobody"]

EmptyTree == [t \in Tables |-> <<>>]

------------------------------------------------------------------------------
(* Identifiers and sharding *)

\* the leading hex digits of SHA-256(key), one fixed digest per key
Digest(key) ==
    CASE key = "a" -> <<0, 1, 1>>
      [] key = "b" -> <<0, 2, 0>>
      [] key = "c" -> <<1, 0, 2>>

Min(a, b) == IF a < b THEN a ELSE b

hash_id(raw, id_length) == SubSeq(Digest(raw), 1, Min(id_length, Len(Digest(raw))))

\* a shard key that is the whole id
shard_key_WholeId(id, shard_characters) == id

shard_key(id, shard_characters) == SubSeq(id, 1, Min(shard_characters, Len(id)))

\* str::cmp on two ids: lexicographic, a proper prefix first
IdLess(a, b) ==
    \/ \E i \in 1..Min(Len(a), Len(b)) :
          /\ a[i] < b[i]
          /\ \A j \in 1..(i - 1) : a[j] = b[j]
    \/ /\ Len(a) < Len(b)
       /\ \A j \in 1..Len(a) : a[j] = b[j]

------------------------------------------------------------------------------
(* Rows *)

Live(id, inner, updated_at) ==
    [kind |-> "Live", id |-> id, inner |-> inner, updated_at |-> updated_at]

Tombstone(id, deleted_at) ==
    [kind |-> "Tombstone", id |-> id, deleted_at |-> deleted_at]

Item(raw_id, title) == [raw_id |-> raw_id, title |-> title]

\* the payloads offered to upsert: key "a" comes with two different titles
Items == {Item("a", t) : t \in Titles} \cup {Item(k, "x") : k \in Keys}

EmptyTable == <<>>

Put(f, k, v) == [x \in (DOMAIN f) \cup {k} |-> IF x = k THEN v ELSE f[x]]

Remove(f, ks) == [x \in (DOMAIN f) \ ks |-> f[x]]

Range(f) == {f[x] : x \in DOMAIN f}

\* the observable content of a table: its live rows and its tombstones
LiveRows(tbl) ==
    {<<r.id, r.inner, r.updated_at>> : r \in {q \in Range(tbl) : q.kind = "Live"}}

Tombstones(tbl) ==
    {<<r.id, r.deleted_at>> : r \in {q \in Range(tbl) : q.kind = "Tombstone"}}

SameRows(t1, t2) ==
    /\ LiveRows(t1) = LiveRows(t2)
    /\ Tombstones(t1) = Tombstones(t2)

------------------------------------------------------------------------------
(* JSON lines: serde's untagged Row with a flattened payload *)

\* a serializer that leaves updated_at out of a live row
to_string_NoUpdatedAt(row) ==
    IF row.kind = "Tombstone"
    THEN [id |-> row.id, deleted_at |-> row.deleted_at]
    ELSE [id |-> row.id, raw_id |-> row.inner.raw_id, title |-> row.inner.title]

to_string(row) ==
    IF row.kind = "Tombstone"
    THEN [id |-> row.id, deleted_at |-> row.deleted_at]
    ELSE [id |-> row.id, raw_id |-> row.inner.raw_id, title |-> row.inner.title,
          updated_at |-> row.updated_at]

\* untagged: Tombstone is tried first and matches when deleted_at is present;
\* otherwise Live, whose updated_at defaults to None
from_str(line) ==
    IF "deleted_at" \in DOMAIN line
    THEN Tombstone(line.id, line.deleted_at)
    ELSE Live(line.id, Item(line.raw_id, line.title),
              IF "updated_at" \in DOMAIN line THEN line.updated_at ELSE None)

------------------------------------------------------------------------------
(* File names of the table directory *)

FinalName(prefix) == [stem |-> "items_", prefix |-> prefix, ext |-> ".jsonl"]

TmpName(prefix) == [stem |-> "items_", prefix |-> prefix, ext |-> ".jsonl.tmp"]

\* a filter that also takes the temporary files of save
is_shard_file_WithTmp(fname) == fname.stem = "items_"

\* fname.starts_with("items_") && fname.ends_with(".jsonl")
is_shard_file(fname) == fname.stem = "items_" /\ fname.ext = ".jsonl"

Finals(d) == {f \in DOMAIN d : is_shard_file(f)}

Temporaries(d) == {f \in DOMAIN d : f.ext = ".jsonl.tmp"}

------------------------------------------------------------------------------
(* Table::load *)

RECURSIVE InsertLines(_, _)
InsertLines(tbl, lines) ==
    IF lines = <<>> THEN tbl
    ELSE LET row == from_str(Head(lines))
         IN  InsertLines(Put(tbl, row.id, row), Tail(lines))

RECURSIVE LoadIn(_, _, _)
\* read the files in the order read_dir yields them
LoadIn(tbl, d, order) ==
    IF order = <<>> THEN tbl
    ELSE LoadIn(InsertLines(tbl, d[Head(order)]), d, Tail(order))

Orders(S) ==
    {o \in [1..Cardinality(S) -> S] : \A i, j \in 1..Cardinality(S) : i # j => o[i] # o[j]}

\* every table load can return for directory d (read_dir's order is unspecified)
load(d) == {LoadIn(EmptyTable, d, o) : o \in Orders(Finals(d))}

\* what Table::load returns for directory d when File::open fails for the
\* files in closed and reading a line fails for the files in broken: a file
\* that cannot be opened is passed over by the let-chain, a line that cannot
\* be read returns the error
load_from(d, closed, broken) ==
    LET opened == Finals(d) \ closed
    IN  IF opened \cap broken # {} THEN {[result |-> "Err", table |-> EmptyTable]}
        ELSE {[result |-> "Ok", table |-> LoadIn(EmptyTable, d, o)] : o \in Orders(opened)}

------------------------------------------------------------------------------
(* Table::upsert and Table::delete *)

\* an upsert that stamps the row even when the payload is the one it holds
upsert_AlwaysStamps(tbl, item, now) ==
    LET id == hash_id(item.raw_id, IdLength)
    IN  Put(tbl, id, Live(id, item, now))

\* an upsert that leaves a tombstone in place
upsert_KeepsTombstone(tbl, item, now) ==
    LET id == hash_id(item.raw_id, IdLength)
    IN  IF id \in DOMAIN tbl /\ (tbl[id].kind = "Tombstone" \/ tbl[id].inner = item)
        THEN tbl
        ELSE Put(tbl, id, Live(id, item, now))

\* an upsert that files the row under a shortened id
upsert_ShortKey(tbl, item, now) ==
    LET id == hash_id(item.raw_id, IdLength)
    IN  IF id \in DOMAIN tbl /\ tbl[id].kind = "Live" /\ tbl[id].inner = item
        THEN tbl
        ELSE Put(tbl, hash_id(item.raw_id, 1), Live(id, item, now))

upsert(tbl, item, now) ==
    LET id == hash_id(item.raw_id, IdLength)
    IN  IF id \in DOMAIN tbl /\ tbl[id].kind = "Live" /\ tbl[id].inner = item
        THEN tbl
        ELSE Put(tbl, id, Live(id, item, now))

\* a delete that stamps a new tombstone over whatever row the id holds
delete_Restamps(tbl, key, now) ==
    LET id == hash_id(key, IdLength)
    IN  IF id \notin DOMAIN tbl THEN tbl ELSE Put(tbl, id, Tombstone(id, now))

\* a delete that drops the row instead of leaving a tombstone
delete_RemovesRow(tbl, key, now) ==
    LET id == hash_id(key, IdLength)
    IN  IF ~(id \in DOMAIN tbl /\ tbl[id].kind = "Live") THEN tbl ELSE Remove(tbl, {id})

delete(tbl, key, now) ==
    LET id == hash_id(key, IdLength)
    IN  IF ~(id \in DOMAIN tbl /\ tbl[id].kind = "Live")
        THEN tbl
        ELSE Put(tbl, id, Tombstone(id, now))

\* what delete returns: Some(id) as {id}, None as {}
delete_returns(tbl, key) ==
    LET id == hash_id(key, IdLength)
    IN  IF ~(id \in DOMAIN tbl /\ tbl[id].kind = "Live") THEN {} ELSE {id}

------------------------------------------------------------------------------
(* Table::save *)

RECURSIVE SortById(_)
\* rows.sort_by(|a, b| a.id().cmp(b.id()))
SortById(rows) ==
    IF rows = {} THEN <<>>
    ELSE LET first == CHOOSE r \in rows : \A q \in rows : ~IdLess(q.id, r.id)
         IN  <<first>> \o SortById(rows \ {first})

\* group the rows by shard key, each group sorted by id
GroupByShard(tbl, shard_characters) ==
    [p \in {shard_key(r.id, shard_characters) : r \in Range(tbl)} |->
        SortById({r \in Range(tbl) : shard_key(r.id, shard_characters) = p})]

Serialize(rows) == [i \in 1..Len(rows) |-> to_string(rows[i])]

\* where save stands once the given work is left
Position(pend, d, tmps) ==
    IF pend # {} THEN "phase1"
    ELSE IF Finals(d) # {} THEN "phase2"
    ELSE IF tmps # <<>> THEN "phase3"
    ELSE "idle"

Outcome(position) == IF position = "idle" THEN "ok" ELSE "none"

------------------------------------------------------------------------------
(* Table::merge_remote: last writer wins, ties keep the local row *)

\* the timestamp a row is ordered by
timestamp(row) == IF row.kind = "Live" THEN row.updated_at ELSE row.deleted_at

\* a merge in which the remote row also wins a tie
merge_remote_TieToRemote(local, remote) ==
    [id \in (DOMAIN local) \cup (DOMAIN remote) |->
        IF id \notin DOMAIN local THEN remote[id]
        ELSE IF id \notin DOMAIN remote THEN local[id]
        ELSE IF timestamp(remote[id]) >= timestamp(local[id]) THEN remote[id]
        ELSE local[id]]

\* a merge that takes the remote row whenever the two timestamps differ
merge_remote_AnyDifference(local, remote) ==
    [id \in (DOMAIN local) \cup (DOMAIN remote) |->
        IF id \notin DOMAIN local THEN remote[id]
        ELSE IF id \notin DOMAIN remote THEN local[id]
        ELSE IF timestamp(remote[id]) # timestamp(local[id]) THEN remote[id]
        ELSE local[id]]

\* a merge that keeps the local row of every id it already holds
merge_remote_KeepLocal(local, remote) ==
    [id \in (DOMAIN local) \cup (DOMAIN remote) |->
        IF id \in DOMAIN local THEN local[id] ELSE remote[id]]

merge_remote(local, remote) ==
    [id \in (DOMAIN local) \cup (DOMAIN remote) |->
        IF id \notin DOMAIN local THEN remote[id]
        ELSE IF id \notin DOMAIN remote THEN local[id]
        ELSE IF timestamp(remote[id]) > timestamp(local[id]) THEN remote[id]
        ELSE local[id]]

------------------------------------------------------------------------------
(* SpecTable: one table, its directory, and the steps of save *)

\* no call returned yet
NoCall == returned = <<>>

\* every clone is a repository with the remote origin
WithRemote == repo = [r \in Replicas |-> "remote"]

\* Table::load takes the shard characters of the row type: T::SHARD_CHARACTERS
ItemShards == self_shard_characters = SHARD_CHARACTERS

MergeIdle ==
    /\ mA = EmptyTable /\ mB = EmptyTable /\ mC = EmptyTable
    /\ mOut = EmptyTable /\ mStep = "off"

SyncIdle ==
    /\ commits = {}
    /\ origin = NoCommit
    /\ head = [r \in Replicas |-> NoCommit]
    /\ tracking = [r \in Replicas |-> NoCommit]
    /\ wt = [r \in Replicas |-> EmptyTree]
    /\ mem = [r \in Replicas |-> EmptyTree]
    /\ spc = [r \in Replicas |-> "idle"]
    /\ log = [r \in Replicas |-> <<>>]
    /\ scen = -1
    /\ edits = 0

TableIdle ==
    /\ items = EmptyTable
    /\ disk = <<>>
    /\ pc = "idle"
    /\ shards = <<>>
    /\ pending = {}
    /\ tmp_paths = <<>>
    /\ failing = <<>>
    /\ clock = 1
    /\ ops = 0
    /\ lastResult = "none"
    /\ preSave = {EmptyTable}
    /\ preDisk = <<>>

InitTable == TableIdle /\ MergeIdle /\ SyncIdle /\ NoCall /\ WithRemote /\ ItemShards

saveLocals == <<shards, pending, tmp_paths, failing>>
history == <<preSave, preDisk>>

\* the locals of a finished save are dropped, and with them the history kept of it
Forget ==
    /\ shards' = <<>>
    /\ pending' = {}
    /\ tmp_paths' = <<>>
    /\ failing' = <<>>
    /\ preSave' = {EmptyTable}
    /\ preDisk' = <<>>

\* the wall clock advances between two calls of Utc::now()
Tick ==
    /\ clock < MaxClock
    /\ clock' = clock + 1
    /\ UNCHANGED <<items, disk, pc, saveLocals, ops, lastResult, history, mergeVars, syncVars, returned, repo, self_shard_characters>>

Upsert(item) ==
    /\ pc = "idle"
    /\ ops < MaxOps
    /\ ops' = ops + 1
    /\ items' = upsert(items, item, clock)
    /\ lastResult' = "none"
    /\ Forget
    /\ UNCHANGED <<disk, pc, clock, mergeVars, syncVars, returned, repo, self_shard_characters>>

Delete(key) ==
    /\ pc = "idle"
    /\ ops < MaxOps
    /\ ops' = ops + 1
    /\ items' = delete(items, key, clock)
    /\ lastResult' = "none"
    /\ Forget
    /\ UNCHANGED <<disk, pc, clock, mergeVars, syncVars, returned, repo, self_shard_characters>>

\* Table::load into a new instance
Load ==
    /\ pc = "idle"
    /\ items' \in load(disk)
    /\ lastResult' = "none"
    /\ Forget
    /\ UNCHANGED <<disk, pc, clock, ops, mergeVars, syncVars, returned, repo, self_shard_characters>>

\* save up to the start of Phase 1: the rows are grouped by shard
SaveBegin ==
    /\ pc = "idle"
    /\ shards' = GroupByShard(items, self_shard_characters)
    /\ pending' = DOMAIN shards'
    /\ tmp_paths' = <<>>
    /\ failing' = <<>>
    /\ preSave' = load(disk)
    /\ preDisk' = disk
    /\ pc' = Position(pending', disk, <<>>)
    /\ lastResult' = Outcome(pc')
    /\ UNCHANGED <<items, disk, clock, ops, mergeVars, syncVars, returned, repo, self_shard_characters>>

\* Phase 1: fs::write of one shard's temporary file succeeds
WriteTmp(prefix) ==
    /\ pc = "phase1"
    /\ prefix \in pending
    /\ disk' = Put(disk, TmpName(prefix), Serialize(shards[prefix]))
    /\ tmp_paths' = Append(tmp_paths, prefix)
    /\ pending' = pending \ {prefix}
    /\ pc' = Position(pending', disk', tmp_paths')
    /\ UNCHANGED <<items, shards, failing, clock, ops, lastResult, history, mergeVars, syncVars, returned, repo, self_shard_characters>>

\* Phase 1: fs::write fails after n of the shard's lines reached the file
WriteTmpFail(prefix, n) ==
    /\ pc = "phase1"
    /\ prefix \in pending
    /\ n < Len(shards[prefix])
    /\ disk' = Put(disk, TmpName(prefix), SubSeq(Serialize(shards[prefix]), 1, n))
    /\ failing' = prefix
    /\ pc' = "cleanup"
    /\ UNCHANGED <<items, shards, pending, tmp_paths, clock, ops, lastResult, history,
                   mergeVars, syncVars, returned, repo, self_shard_characters>>

\* an error path that removes only the file whose write failed
CleanupTargets_OnlyFailed(failed, tmps) == {TmpName(failed)}

\* the files the error path of Phase 1 removes
CleanupTargets(failed, tmps) ==
    {TmpName(failed)} \cup {TmpName(tmps[i]) : i \in 1..Len(tmps)}

\* the error path of Phase 1: remove the temporaries, return the error
CleanupTmp ==
    /\ pc = "cleanup"
    /\ disk' = Remove(disk, CleanupTargets(failing, tmp_paths))
    /\ pc' = "idle"
    /\ lastResult' = "err"
    /\ UNCHANGED <<items, saveLocals, clock, ops, history, mergeVars, syncVars, returned, repo, self_shard_characters>>

\* Phase 2: remove one old shard file
RemoveOld(fname) ==
    /\ pc = "phase2"
    /\ fname \in Finals(disk)
    /\ disk' = Remove(disk, {fname})
    /\ pc' = Position({}, disk', tmp_paths)
    /\ lastResult' = Outcome(pc')
    /\ UNCHANGED <<items, saveLocals, clock, ops, history, mergeVars, syncVars, returned, repo, self_shard_characters>>

\* Phase 3: rename the next temporary to its final name
Rename ==
    /\ pc = "phase3"
    /\ LET prefix == Head(tmp_paths)
       IN  disk' = Put(Remove(disk, {TmpName(prefix)}), FinalName(prefix),
                       disk[TmpName(prefix)])
    /\ tmp_paths' = Tail(tmp_paths)
    /\ pc' = IF tmp_paths' = <<>> THEN "idle" ELSE "phase3"
    /\ lastResult' = Outcome(pc')
    /\ UNCHANGED <<items, shards, pending, failing, clock, ops, history, mergeVars, syncVars, returned, repo, self_shard_characters>>

\* the process dies inside save; the next process loads the directory
Crash ==
    /\ pc # "idle"
    /\ items' \in load(disk)
    /\ pc' = "idle"
    /\ lastResult' = "none"
    /\ Forget
    /\ UNCHANGED <<disk, clock, ops, mergeVars, syncVars, returned, repo, self_shard_characters>>

NextTable ==
    \/ Tick
    \/ \E item \in Items : Upsert(item)
    \/ \E key \in Keys : Delete(key)
    \/ Load
    \/ SaveBegin
    \/ \E prefix \in pending : WriteTmp(prefix)
    \/ \E prefix \in pending : \E n \in 0..1 : WriteTmpFail(prefix, n)
    \/ CleanupTmp
    \/ \E fname \in DOMAIN disk : RemoveOld(fname)
    \/ Rename
    \/ Crash

SpecTable == InitTable /\ [][NextTable]_vars

------------------------------------------------------------------------------
(* Claims about save and load, checked under SpecTable *)

\* the final shard files are what they were when save started
FinalsUntouched ==
    /\ Finals(disk) = Finals(preDisk)
    /\ \A f \in Finals(disk) : disk[f] = preDisk[f]

\* C1: at every point inside save (after any prefix of its file-system steps),
\* load of the directory yields exactly the pre-save rows or exactly the
\* post-save rows.
C1_LoadSeesPreOrPost ==
    pc # "idle" =>
        \A t \in load(disk) :
            \/ \E pre \in preSave : SameRows(t, pre)
            \/ SameRows(t, items)

\* C2: when a temporary write fails in Phase 1, save returns an error, no
\* final shard file was modified or removed, every temporary written by this
\* save is deleted, and load yields exactly the pre-save state.
C2_FailedWriteKeepsPreSave ==
    /\ pc \in {"phase1", "cleanup"} => FinalsUntouched
    /\ lastResult = "err" =>
          /\ pc = "idle"
          /\ FinalsUntouched
          /\ \A f \in CleanupTargets(failing, tmp_paths) : f \notin DOMAIN disk
          /\ \A i \in 1..Len(tmp_paths) : TmpName(tmp_paths[i]) \notin DOMAIN disk
          /\ TmpName(failing) \notin DOMAIN disk
          /\ load(disk) = preSave

\* a save failed after it had written another shard's temporary, over a
\* directory that held shard files, with unsaved changes in memory
C2_Witness ==
    /\ lastResult = "err"
    /\ tmp_paths # <<>>
    /\ Finals(preDisk) # {}
    /\ \A pre \in preSave : ~SameRows(pre, items)

\* C3: after a successful save, load into a new instance yields the live rows
\* (id, payload, updated_at) and the tombstones (id, deleted_at) of the
\* in-memory table.
C3_SaveLoadRoundTrip ==
    lastResult = "ok" =>
        /\ load(disk) # {}
        /\ \A t \in load(disk) : SameRows(t, items)

\* a saved table with a live row and a tombstone, spread over two shard files
C3_Witness ==
    /\ lastResult = "ok"
    /\ LiveRows(items) # {}
    /\ Tombstones(items) # {}
    /\ Cardinality(Finals(disk)) >= 2

------------------------------------------------------------------------------
(* SpecMerge: merge_remote applied to row maps drawn from bounded sets *)

\* the rows a map can hold at the id of a key
RowsOf(key) ==
    LET id == hash_id(key, IdLength)
    IN  {Live(id, item, ts) : item \in {i \in Items : i.raw_id = key},
                              ts \in {None} \cup (1..MaxTs)}
        \cup {Tombstone(id, ts) : ts \in 1..MaxTs}

\* the row maps over the ids of the given keys, each row under its own id
RowMaps(keys) ==
    UNION {[{hash_id(k, IdLength) : k \in ks} -> UNION {RowsOf(k) : k \in ks}]
              : ks \in SUBSET keys}

WellKeyed(m) == \A id \in DOMAIN m : m[id].id = id

InitMerge ==
    /\ TableIdle
    /\ mA \in {m \in RowMaps({"a", "c"}) : WellKeyed(m)}
    /\ mB \in {m \in RowMaps({"a", "c"}) : WellKeyed(m)}
    /\ mC \in {m \in RowMaps({"a"}) : WellKeyed(m)}
    /\ mOut = EmptyTable
    /\ mStep = "start"
    /\ SyncIdle
    /\ NoCall
    /\ WithRemote
    /\ ItemShards

\* a table holding A merges the remote rows B
MergeAB ==
    /\ mStep = "start"
    /\ mOut' = merge_remote(mA, mB)
    /\ mStep' = "AB"
    /\ UNCHANGED <<tableVars, syncVars, returned, repo, self_shard_characters, mA, mB, mC>>

\* a table holding B merges the remote rows A
MergeBA ==
    /\ mStep = "start"
    /\ mOut' = merge_remote(mB, mA)
    /\ mStep' = "BA"
    /\ UNCHANGED <<tableVars, syncVars, returned, repo, self_shard_characters, mA, mB, mC>>

\* a table holding B merges the remote rows C
MergeBC ==
    /\ mStep = "start"
    /\ mOut' = merge_remote(mB, mC)
    /\ mStep' = "BC"
    /\ UNCHANGED <<tableVars, syncVars, returned, repo, self_shard_characters, mA, mB, mC>>

\* the table that merged B goes on to merge C
MergeAB_C ==
    /\ mStep = "AB"
    /\ mOut' = merge_remote(mOut, mC)
    /\ mStep' = "AB_C"
    /\ UNCHANGED <<tableVars, syncVars, returned, repo, self_shard_characters, mA, mB, mC>>

\* the table that merged B merges B a second time
MergeAB_B ==
    /\ mStep = "AB"
    /\ mOut' = merge_remote(mOut, mB)
    /\ mStep' = "AB_B"
    /\ UNCHANGED <<tableVars, syncVars, returned, repo, self_shard_characters, mA, mB, mC>>

\* a table holding A merges the result of merging C into B
MergeA_BC ==
    /\ mStep = "BC"
    /\ mOut' = merge_remote(mA, mOut)
    /\ mStep' = "A_BC"
    /\ UNCHANGED <<tableVars, syncVars, returned, repo, self_shard_characters, mA, mB, mC>>

NextMerge ==
    \/ MergeAB
    \/ MergeBA
    \/ MergeBC
    \/ MergeAB_C
    \/ MergeAB_B
    \/ MergeA_BC

SpecMerge == InitMerge /\ [][NextMerge]_vars

------------------------------------------------------------------------------
(* Claims about merge_remote, checked under SpecMerge *)

Both == (DOMAIN mA) \cap (DOMAIN mB)

C5_MergeAssociativeIdempotent ==
    /\ mStep = "AB_C" => mOut = merge_remote(mA, merge_remote(mB, mC))
    /\ mStep = "A_BC" => mOut = merge_remote(merge_remote(mA, mB), mC)
    /\ mStep = "AB_B" => mOut = merge_remote(mA, mB)

\* three different rows for one id, merged in the grouping A, (B, C)
C5_Witness ==
    /\ mStep = "A_BC"
    /\ \E id \in Both \cap (DOMAIN mC) :
          /\ mA[id] # mB[id] /\ mB[id] # mC[id] /\ mA[id] # mC[id]
          /\ timestamp(mA[id]) < timestamp(mC[id])

NoTie == \A id \in Both : mA[id] = mB[id] \/ timestamp(mA[id]) # timestamp(mB[id])

TombLive(id) ==
    /\ id \in Both
    /\ mA[id].kind # mB[id].kind

TombOf(id) == IF mA[id].kind = "Tombstone" THEN mA[id] ELSE mB[id]

LiveOf(id) == IF mA[id].kind = "Live" THEN mA[id] ELSE mB[id]

------------------------------------------------------------------------------
(* The repository: commits, status, auto_commit, the remote-tracking ref *)

EmptyStore == [t \in Tables |-> EmptyTable]

ShardCharactersOf(t) ==
    IF t = "feeds" THEN FEEDS_SHARD_CHARACTERS ELSE SHARD_CHARACTERS

\* the directory a successful save leaves for a table
SavedDir(tbl, shard_characters) ==
    LET groups == GroupByShard(tbl, shard_characters)
    IN  [f \in {FinalName(p) : p \in DOMAIN groups} |-> Serialize(groups[f.prefix])]

\* the directory a successful save leaves when it starts from directory d:
\* its temporary files overwritten and renamed, the old shard files removed,
\* every other file left alone
save_ok(d, tbl, shard_characters) ==
    LET new == SavedDir(tbl, shard_characters)
        gone == Finals(d) \cup {TmpName(f.prefix) : f \in DOMAIN new}
    IN  [f \in ((DOMAIN d) \ gone) \cup (DOMAIN new) |->
            IF f \in DOMAIN new THEN new[f] ELSE d[f]]

\* a sort that leaves the rows in the order the map yielded them
sort_by_Unsorted(rows) == rows

RECURSIVE sort_by(_)
\* rows.sort_by(|a, b| a.id().cmp(b.id())) on a vector: a stable sort
sort_by(rows) ==
    IF rows = <<>> THEN <<>>
    ELSE LET last == rows[Len(rows)]
             rest == sort_by(SubSeq(rows, 1, Len(rows) - 1))
             k == Cardinality({i \in 1..Len(rest) : ~IdLess(last.id, rest[i].id)})
         IN  SubSeq(rest, 1, k) \o <<last>> \o SubSeq(rest, k + 1, Len(rest))

\* the shard files save writes when self.items.values() yields the rows in
\* the order of the sequence values
SavedDirIn(values, shard_characters) ==
    LET keyOf(row) == shard_key(row.id, shard_characters)
        InShard(p) == SelectSeq(values, LAMBDA row : keyOf(row) = p)
    IN  [f \in {FinalName(keyOf(values[i])) : i \in 1..Len(values)} |->
            Serialize(sort_by(InShard(f.prefix)))]

\* a save without Phase 2: the old shard files stay unless a rename replaces them
save_in_KeepsOld(d, values, shard_characters) ==
    LET new == SavedDirIn(values, shard_characters)
        gone == {TmpName(f.prefix) : f \in DOMAIN new}
    IN  [f \in ((DOMAIN d) \ gone) \cup (DOMAIN new) |->
            IF f \in DOMAIN new THEN new[f] ELSE d[f]]

\* the directory a successful save leaves when it starts from directory d and
\* the map yields its rows in the order of values
save_in(d, values, shard_characters) ==
    LET new == SavedDirIn(values, shard_characters)
        gone == Finals(d) \cup {TmpName(f.prefix) : f \in DOMAIN new}
    IN  [f \in ((DOMAIN d) \ gone) \cup (DOMAIN new) |->
            IF f \in DOMAIN new THEN new[f] ELSE d[f]]

\* Store::save: every table saved into its directory
SavedTree(tree, store) ==
    [t \in Tables |-> save_ok(tree[t], store[t], ShardCharactersOf(t))]

\* Store::open: every table loaded from its directory
Opened(tree) == {st \in [Tables -> UNION {load(tree[t]) : t \in Tables}] :
                    \A t \in Tables : st[t] \in load(tree[t])}

TreeOf(c) == IF c = NoCommit THEN EmptyTree ELSE c.tree

\* path.contains('/') && path.ends_with(".jsonl"), for a file of a table directory
is_data_file(fname) == fname.ext = ".jsonl"

\* no data file is new, changed or deleted with respect to HEAD
is_clean(w, c) ==
    \A t \in Tables :
        \A f \in (DOMAIN w[t]) \cup (DOMAIN TreeOf(c)[t]) :
            is_data_file(f) =>
                /\ f \in DOMAIN w[t]
                /\ f \in DOMAIN TreeOf(c)[t]
                /\ w[t][f] = TreeOf(c)[t][f]

\* a clean check that lets every working tree pass
ensure_clean_Skipped(w, c) == TRUE

\* Ok exactly when the working tree is clean; otherwise the command stops with
\* "store has uncommitted changes"
ensure_clean(w, c) == is_clean(w, c)

\* a pathspec that matches every file
in_pathspec_Everything(fname) == TRUE

\* the pathspec */items_*.jsonl of index.add_all
in_pathspec(fname) == fname.stem = "items_" /\ fname.ext = ".jsonl"

\* the tree auto_commit writes: the index (equal to HEAD's tree) with the
\* shard files of the working tree added and the vanished .jsonl entries removed
StagedTree(w, c) ==
    [t \in Tables |->
        LET base == TreeOf(c)[t]
            added == {f \in DOMAIN w[t] : in_pathspec(f)}
            kept == {f \in DOMAIN base : ~(f.ext = ".jsonl" /\ f \notin DOMAIN w[t])}
        IN  [f \in added \cup kept |-> IF f \in added THEN w[t][f] ELSE base[f]]]

ParentsOf(c) == IF c = NoCommit THEN <<>> ELSE <<c>>

\* the commit auto_commit creates in clone r: an object is named by its content
Snapshot(r, w, c) == [parents |-> ParentsOf(c), tree |-> StagedTree(w, c), by |-> r]

\* the commit objects after auto_commit ran on working tree w with HEAD at c
auto_commit(r, w, c) ==
    IF is_clean(w, c) THEN commits ELSE commits \cup {Snapshot(r, w, c)}

\* an auto_commit that commits even when the working tree is clean
HeadAfterCommit_Always(r, w, c) == Snapshot(r, w, c)

\* an auto_commit that never moves HEAD
HeadAfterCommit_Never(r, w, c) == c

\* HEAD after auto_commit ran on working tree w with HEAD at c
HeadAfterCommit(r, w, c) == IF is_clean(w, c) THEN c ELSE Snapshot(r, w, c)

RECURSIVE Ancestors(_)
\* the commits reachable from c, c included
Ancestors(c) ==
    IF c = NoCommit THEN {}
    ELSE {c} \cup UNION {Ancestors(c.parents[i]) : i \in 1..Len(c.parents)}

\* git_graph_descendant_of: a commit is no descendant of itself
graph_descendant_of(commit, ancestor) ==
    commit # ancestor /\ ancestor \in Ancestors(commit)

\* Some(repo) exactly when a repository exists at the store's path
try_open_repo(r) == repo[r] # "none"

\* a check that finds a remote in every repository
has_remote_Always(r) == TRUE

\* git remote get-url origin succeeds
has_remote(r) == repo[r] = "remote"

\* a lookup that always finds a remote-tracking branch
has_remote_branch_Always(r) == TRUE

\* find_remote_ref(repo).is_some()
has_remote_branch(r) == tracking[r] # NoCommit

is_up_to_date(r) == head[r] = tracking[r]

\* a classification with the two commits swapped
is_remote_ancestor_Swapped(r) ==
    IF head[r] = tracking[r] THEN FALSE
    ELSE graph_descendant_of(tracking[r], head[r])

is_remote_ancestor(r) ==
    IF head[r] = tracking[r] THEN FALSE
    ELSE graph_descendant_of(head[r], tracking[r])

\* a read that finds no shard file in the remote tree
read_remote_table_NoFiles(r, t) == {EmptyTable}

\* read_remote_table: the rows of the shard files in the remote-tracking tree
read_remote_table(r, t) ==
    LET dir == TreeOf(tracking[r])[t]
    IN  {LoadIn(EmptyTable, dir, o) : o \in Orders(Finals(dir))}

\* a merge commit that records only HEAD as its parent
MergeParents_HeadOnly(r) == <<head[r]>>

\* the parents of the commit merge_ours creates
MergeParents(r) == <<head[r], tracking[r]>>

\* a merge commit that takes the tree of the remote-tracking branch
MergeCommit_TheirTree(r) ==
    [parents |-> MergeParents(r), tree |-> TreeOf(tracking[r]), by |-> r]

\* the commit merge_ours creates: HEAD's tree under both parents
MergeCommit(r) == [parents |-> MergeParents(r), tree |-> TreeOf(head[r]), by |-> r]

\* merge_ours returns early without a remote ref or with the remote an ancestor
NothingToMerge(r) ==
    tracking[r] = NoCommit \/ graph_descendant_of(head[r], tracking[r])

\* the commit objects after merge_ours
merge_ours(r) == IF NothingToMerge(r) THEN commits ELSE commits \cup {MergeCommit(r)}

\* HEAD after merge_ours
HeadAfterMerge(r) == IF NothingToMerge(r) THEN head[r] ELSE MergeCommit(r)

\* a push that the remote accepts whatever its branch holds
push_accepted_Forced(r) == head[r] # NoCommit

\* git push origin HEAD is accepted when it fast-forwards the remote branch
push_accepted(r) ==
    /\ head[r] # NoCommit
    /\ origin = NoCommit \/ origin \in Ancestors(head[r])

------------------------------------------------------------------------------
(* Commands on a replica: feed add, feed rm, and the steps of sync *)

SyncKeys == {"a", "b"}

\* the FeedSource a subscription starts as: every field but the url empty
NewFeed(key) == Item(key, "x")

\* the same source once a fetch filled in the feed's metadata
Fetched(source) == Item(source.raw_id, "y")

\* the post a successful fetch of a source yields
PostOf(source) == Item(source.raw_id, "x")

\* Table::items: the payloads of the live rows
items_of(tbl) == {row.inner : row \in {q \in Range(tbl) : q.kind = "Live"}}

\* a pull that rewrites the row of every subscribed feed, fetched or not
cmd_pull_TouchesAll(st, ok, now) ==
    [st EXCEPT !["feeds"] =
        [id \in DOMAIN @ |->
            IF @[id].kind = "Live" THEN Live(id, Fetched(@[id].inner), now) ELSE @[id]]]

RECURSIVE cmd_pull(_, _, _)
\* the sequential loop over the fetch results; ok holds the sources whose
\* fetch succeeded, the others are reported and skipped
cmd_pull(st, ok, now) ==
    IF ok = {} THEN st
    ELSE LET source == CHOOSE x \in ok : TRUE
             one == [st EXCEPT !["posts"] = upsert(@, PostOf(source), now),
                               !["feeds"] = upsert(@, Fetched(source), now)]
         IN  cmd_pull(one, ok \ {source}, now)

cmd_add(st, key, now) == [st EXCEPT !["feeds"] = upsert(@, NewFeed(key), now)]

\* delete the feed and the posts that reference it
cmd_remove(st, key, now) ==
    [st EXCEPT !["feeds"] = delete(@, key, now),
               !["posts"] = delete(@, key, now)]

IsLive(tbl, key) ==
    LET id == hash_id(key, IdLength)
    IN  id \in DOMAIN tbl /\ tbl[id].kind = "Live"

\* the commit a store is initialised with: no shard file yet
InitialCommit == [parents |-> <<>>, tree |-> EmptyTree, by |-> "init"]

InitSync ==
    /\ TableIdle
    /\ MergeIdle
    /\ commits = {InitialCommit}
    /\ origin \in {NoCommit, InitialCommit}
    /\ head = [r \in Replicas |-> IF origin = InitialCommit \/ r = "A"
                                   THEN InitialCommit ELSE NoCommit]
    /\ tracking = [r \in Replicas |-> origin]
    /\ wt = [r \in Replicas |-> EmptyTree]
    /\ mem = [r \in Replicas |-> EmptyStore]
    /\ spc = [r \in Replicas |-> "idle"]
    /\ log = [r \in Replicas |-> <<>>]
    /\ scen = IF origin = InitialCommit THEN 0 ELSE -1
    /\ edits = 0
    /\ NoCall
    /\ WithRemote
    /\ ItemShards

\* progress through the two-clone scenario: A adds a, A syncs, B adds b,
\* B syncs, A syncs again; -1 once the run leaves the scenario
ScenNext(n, event) ==
    IF n = 0 /\ event = <<"add", "A", "a">> THEN 1
    ELSE IF n \in {1, 4} /\ event = <<"step", "A">> THEN n
    ELSE IF n = 3 /\ event = <<"step", "B">> THEN n
    ELSE IF n = 1 /\ event = <<"ok", "A">> THEN 2
    ELSE IF n = 2 /\ event = <<"add", "B", "b">> THEN 3
    ELSE IF n = 3 /\ event = <<"ok", "B">> THEN 4
    ELSE IF n = 4 /\ event = <<"ok", "A">> THEN 5
    ELSE -1

Room(n) == Cardinality(commits) + n <= MaxCommits

\* feed add: the transaction, its save, and the snapshot of the store
FeedAdd(r, key, now) ==
    /\ spc[r] = "idle"
    /\ ensure_clean(wt[r], head[r])
    /\ Room(1)
    /\ edits < MaxEdits
    /\ edits' = edits + 1
    /\ \E st \in Opened(wt[r]) :
        LET saved == SavedTree(wt[r], cmd_add(st, key, now))
        IN  /\ wt' = [wt EXCEPT ![r] = saved]
            /\ commits' = auto_commit(r, saved, head[r])
            /\ head' = [head EXCEPT ![r] = HeadAfterCommit(r, saved, head[r])]
    /\ scen' = ScenNext(scen, <<"add", r, key>>)
    /\ UNCHANGED <<origin, tracking, mem, spc, log, tableVars, mergeVars, returned, repo, self_shard_characters>>

\* feed rm: fails when the feed is not subscribed
FeedRemove(r, key, now) ==
    /\ spc[r] = "idle"
    /\ ensure_clean(wt[r], head[r])
    /\ Room(1)
    /\ edits < MaxEdits
    /\ edits' = edits + 1
    /\ \E st \in Opened(wt[r]) :
        /\ IsLive(st["feeds"], key)
        /\ LET saved == SavedTree(wt[r], cmd_remove(st, key, now))
           IN  /\ wt' = [wt EXCEPT ![r] = saved]
               /\ commits' = auto_commit(r, saved, head[r])
               /\ head' = [head EXCEPT ![r] = HeadAfterCommit(r, saved, head[r])]
    /\ scen' = ScenNext(scen, <<"rm", r, key>>)
    /\ UNCHANGED <<origin, tracking, mem, spc, log, tableVars, mergeVars, returned, repo, self_shard_characters>>

\* sync up to the first network operation: ensure_clean, the pull
\* transaction, auto_commit "pull feeds", has_remote_branch
SyncPull(r) ==
    /\ spc[r] = "idle"
    /\ try_open_repo(r)
    /\ has_remote(r)
    /\ ensure_clean(wt[r], head[r])
    /\ Room(1)
    /\ \E st \in Opened(wt[r]), now \in 1..MaxClock :
        \E ok \in SUBSET items_of(st["feeds"]) :
            LET pulled == cmd_pull(st, ok, now)
                saved == SavedTree(wt[r], pulled)
            IN  /\ pulled # st => edits < MaxEdits
                /\ edits' = IF pulled # st THEN edits + 1 ELSE edits
                /\ mem' = [mem EXCEPT ![r] = pulled]
                /\ wt' = [wt EXCEPT ![r] = saved]
                /\ commits' = auto_commit(r, saved, head[r])
                /\ head' = [head EXCEPT ![r] = HeadAfterCommit(r, saved, head[r])]
    /\ spc' = [spc EXCEPT ![r] = IF has_remote_branch(r) THEN "fetch" ELSE "first_push"]
    /\ log' = [log EXCEPT ![r] = <<"pull", "auto_commit">>]
    /\ scen' = ScenNext(scen, <<"step", r>>)
    /\ UNCHANGED <<origin, tracking, tableVars, mergeVars, returned, repo, self_shard_characters>>

\* the effect of git push origin HEAD, accepted or failed
push(r, accepted) ==
    /\ origin' = IF accepted THEN head[r] ELSE origin
    /\ tracking' = [tracking EXCEPT ![r] = IF accepted THEN head[r] ELSE @]
    /\ scen' = ScenNext(scen, IF accepted THEN <<"ok", r>> ELSE <<"err", r>>)
    /\ log' = [log EXCEPT ![r] = <<>>]
    /\ spc' = [spc EXCEPT ![r] = "idle"]
    /\ mem' = [mem EXCEPT ![r] = EmptyStore]
    /\ returned' = <<"sync", r, IF accepted THEN "Ok" ELSE "PushError">>

PushResults(r) == IF push_accepted(r) THEN {TRUE, FALSE} ELSE {FALSE}

\* no remote branch yet: push and return
FirstPush(r) ==
    /\ spc[r] = "first_push"
    /\ \E accepted \in PushResults(r) : push(r, accepted)
    /\ UNCHANGED <<edits, commits, head, wt, tableVars, mergeVars, repo, self_shard_characters>>

\* git fetch origin moves the remote-tracking ref to the remote's branch
SyncFetch(r) ==
    /\ spc[r] = "fetch"
    /\ tracking' = [tracking EXCEPT ![r] = origin]
    /\ spc' = [spc EXCEPT ![r] = "fetched"]
    /\ log' = [log EXCEPT ![r] = Append(@, "fetch")]
    /\ scen' = ScenNext(scen, <<"step", r>>)
    /\ UNCHANGED <<edits, commits, origin, head, wt, mem, tableVars, mergeVars, returned, repo, self_shard_characters>>

\* git fetch failed: sync returns the error
SyncFetchFail(r) ==
    /\ spc[r] = "fetch"
    /\ spc' = [spc EXCEPT ![r] = "idle"]
    /\ mem' = [mem EXCEPT ![r] = EmptyStore]
    /\ log' = [log EXCEPT ![r] = <<>>]
    /\ scen' = ScenNext(scen, <<"err", r>>)
    /\ returned' = <<"sync", r, "FetchError">>
    /\ UNCHANGED <<edits, commits, origin, head, tracking, wt, tableVars, mergeVars, repo, self_shard_characters>>

\* already up to date
UpToDate(r) ==
    /\ spc[r] = "fetched"
    /\ is_up_to_date(r)
    /\ spc' = [spc EXCEPT ![r] = "idle"]
    /\ mem' = [mem EXCEPT ![r] = EmptyStore]
    /\ log' = [log EXCEPT ![r] = <<>>]
    /\ scen' = ScenNext(scen, <<"ok", r>>)
    /\ returned' = <<"sync", r, "Ok">>
    /\ UNCHANGED <<edits, commits, origin, head, tracking, wt, tableVars, mergeVars, repo, self_shard_characters>>

\* local is strictly ahead: no merge is needed
LocalAhead(r) ==
    /\ spc[r] = "fetched"
    /\ ~is_up_to_date(r)
    /\ is_remote_ancestor(r)
    /\ spc' = [spc EXCEPT ![r] = "push_only"]
    /\ scen' = ScenNext(scen, <<"step", r>>)
    /\ UNCHANGED <<edits, commits, origin, head, tracking, wt, mem, log, tableVars, mergeVars, returned, repo, self_shard_characters>>

\* the push of a clone that is strictly ahead
PushOnly(r) ==
    /\ spc[r] = "push_only"
    /\ \E accepted \in PushResults(r) : push(r, accepted)
    /\ UNCHANGED <<edits, commits, head, wt, tableVars, mergeVars, repo, self_shard_characters>>

\* diverged: read the remote tables and merge them into the store
MergeRemote(r) ==
    /\ spc[r] = "fetched"
    /\ ~is_up_to_date(r)
    /\ ~is_remote_ancestor(r)
    /\ \E remote_feeds \in read_remote_table(r, "feeds"),
          remote_posts \in read_remote_table(r, "posts") :
        mem' = [mem EXCEPT ![r] =
                    [feeds |-> merge_remote(mem[r]["feeds"], remote_feeds),
                     posts |-> merge_remote(mem[r]["posts"], remote_posts)]]
    /\ spc' = [spc EXCEPT ![r] = "merged"]
    /\ log' = [log EXCEPT ![r] = Append(@, "merge_remote")]
    /\ scen' = ScenNext(scen, <<"step", r>>)
    /\ UNCHANGED <<edits, commits, origin, head, tracking, wt, tableVars, mergeVars, returned, repo, self_shard_characters>>

\* store.save()
SyncSave(r) ==
    /\ spc[r] = "merged"
    /\ wt' = [wt EXCEPT ![r] = SavedTree(wt[r], mem[r])]
    /\ spc' = [spc EXCEPT ![r] = "saved"]
    /\ log' = [log EXCEPT ![r] = Append(@, "save")]
    /\ scen' = ScenNext(scen, <<"step", r>>)
    /\ UNCHANGED <<edits, commits, origin, head, tracking, mem, tableVars, mergeVars, returned, repo, self_shard_characters>>

\* auto_commit "sync"
SyncAutoCommit(r) ==
    /\ spc[r] = "saved"
    /\ Room(2)
    /\ commits' = auto_commit(r, wt[r], head[r])
    /\ head' = [head EXCEPT ![r] = HeadAfterCommit(r, wt[r], head[r])]
    /\ spc' = [spc EXCEPT ![r] = "committed"]
    /\ log' = [log EXCEPT ![r] = Append(@, "auto_commit")]
    /\ scen' = ScenNext(scen, <<"step", r>>)
    /\ UNCHANGED <<edits, origin, tracking, wt, mem, tableVars, mergeVars, returned, repo, self_shard_characters>>

\* merge_ours: HEAD moves to the merge commit when one is created
MergeOurs(r) ==
    /\ spc[r] = "committed"
    /\ Room(1)
    /\ commits' = merge_ours(r)
    /\ head' = [head EXCEPT ![r] = HeadAfterMerge(r)]
    /\ spc' = [spc EXCEPT ![r] = "push"]
    /\ log' = [log EXCEPT ![r] = Append(@, "merge_ours")]
    /\ scen' = ScenNext(scen, <<"step", r>>)
    /\ UNCHANGED <<edits, origin, tracking, wt, mem, tableVars, mergeVars, returned, repo, self_shard_characters>>

\* the push that ends the merge path
SyncPush(r) ==
    /\ spc[r] = "push"
    /\ \E accepted \in PushResults(r) : push(r, accepted)
    /\ UNCHANGED <<edits, commits, head, wt, tableVars, mergeVars, repo, self_shard_characters>>

NextSync ==
    \/ \E r \in Replicas, key \in SyncKeys, now \in 1..MaxClock : FeedAdd(r, key, now)
    \/ \E r \in Replicas, key \in SyncKeys, now \in 1..MaxClock : FeedRemove(r, key, now)
    \/ \E r \in Replicas : SyncPull(r)
    \/ \E r \in Replicas : FirstPush(r)
    \/ \E r \in Replicas : SyncFetch(r)
    \/ \E r \in Replicas : SyncFetchFail(r)
    \/ \E r \in Replicas : UpToDate(r)
    \/ \E r \in Replicas : LocalAhead(r)
    \/ \E r \in Replicas : PushOnly(r)
    \/ \E r \in Replicas : MergeRemote(r)
    \/ \E r \in Replicas : SyncSave(r)
    \/ \E r \in Replicas : SyncAutoCommit(r)
    \/ \E r \in Replicas : MergeOurs(r)
    \/ \E r \in Replicas : SyncPush(r)

SpecSync == InitSync /\ [][NextSync]_vars

------------------------------------------------------------------------------
(* Sync: classification, the merge path, the two-clone scenario *)

\* the clone took a step of its sync out of position p
Leaves(r, p) == spc[r] = p /\ spc'[r] # p

\* the remote-tracking commit is in HEAD's history and is not HEAD
StrictAncestor(r) == tracking[r] # head[r] /\ tracking[r] \in Ancestors(head[r])

C8_Classified(r) ==
    /\ Leaves(r, "fetched") /\ head[r] = tracking[r] =>
        /\ spc'[r] = "idle"
        /\ UNCHANGED <<commits, origin, head, tracking, wt>>
    /\ Leaves(r, "fetched") /\ StrictAncestor(r) =>
        /\ spc'[r] = "push_only"
        /\ UNCHANGED <<commits, origin, head, tracking, wt, mem>>
    /\ Leaves(r, "push_only") =>
        /\ spc'[r] = "idle"
        /\ origin' \in {origin, head[r]}
        /\ UNCHANGED <<commits, head, wt>>
    /\ Leaves(r, "fetched") /\ head[r] # tracking[r] /\ ~StrictAncestor(r) =>
        /\ spc'[r] = "merged"
        /\ log'[r] = Append(log[r], "merge_remote")

\* C8: after a successful fetch sync takes the path HEAD and the
\* remote-tracking commit determine: equal commits end the sync with no commit
\* and no push; a remote commit that is a strict ancestor of HEAD leads to the
\* push with no merge and no new commit; every other pair starts the merge path
C8_SyncClassification == [][\A r \in Replicas : C8_Classified(r)]_vars

\* a clone that is strictly ahead of the fetched remote is about to push
C8_Witness ==
    \E r \in Replicas : spc[r] = "push_only" /\ StrictAncestor(r) /\ origin = tracking[r]

MergePathLog == <<"pull", "auto_commit", "fetch", "merge_remote", "save", "auto_commit", "merge_ours">>

C9_Ordered(r) ==
    /\ Leaves(r, "fetched") /\ spc'[r] = "merged" =>
        /\ \A t \in Tables :
            \E remote \in read_remote_table(r, t) :
                mem'[r][t] = merge_remote(mem[r][t], remote)
        /\ UNCHANGED <<commits, origin, head, wt>>
    /\ Leaves(r, "merged") =>
        /\ spc'[r] = "saved"
        /\ wt'[r] = SavedTree(wt[r], mem[r])
        /\ UNCHANGED <<commits, origin, head>>
    /\ Leaves(r, "saved") =>
        /\ spc'[r] = "committed"
        /\ is_clean(wt[r], head[r]) => commits' = commits /\ head' = head
        /\ ~is_clean(wt[r], head[r]) =>
            /\ commits' = commits \cup {head'[r]}
            /\ head'[r] \notin commits
            /\ head'[r].parents = <<head[r]>>
            /\ head'[r].tree = wt[r]
        /\ UNCHANGED <<origin, wt>>
    /\ Leaves(r, "committed") =>
        /\ spc'[r] = "push"
        /\ head'[r] \notin commits
        /\ commits' = commits \cup {head'[r]}
        /\ head'[r].parents = <<head[r], tracking[r]>>
        /\ head'[r].tree = head[r].tree
        /\ UNCHANGED <<origin, wt>>
    /\ Leaves(r, "push") =>
        /\ log[r] = MergePathLog
        /\ Len(head[r].parents) = 2
        /\ head[r].parents[2] = tracking[r]
        /\ origin' \in {origin, head[r]}
        /\ UNCHANGED <<commits, head, wt>>

\* C9: on the merge path sync runs merge_remote on every table, then saves,
\* then auto-commits the merged data, then creates the merge commit whose
\* parents are the HEAD the auto-commit left and the remote-tracking commit and
\* whose tree is that HEAD's tree, and only then pushes
C9_MergePathOrder == [][\A r \in Replicas : C9_Ordered(r)]_vars

\* a clone on the merge path stands before its push with the merge commit made
C9_Witness ==
    \E r \in Replicas :
        /\ spc[r] = "push"
        /\ Len(head[r].parents) = 2
        /\ head[r].parents[2] = tracking[r]
        /\ head[r].parents[1].tree # TreeOf(tracking[r])

HasMergeCommit(r) == \E c \in Ancestors(head[r]) : Len(c.parents) = 2

\* C10: when clone A added a and synced, clone B added b and synced, and
\* clone A synced again, the feeds of both clones hold live rows for a and b
\* and the history of each clone's HEAD holds a commit with two parents
C10_TwoWaySync ==
    scen = 5 =>
        \A r \in Replicas :
            /\ \A st \in Opened(wt[r]) :
                IsLive(st["feeds"], "a") /\ IsLive(st["feeds"], "b")
            /\ HasMergeCommit(r)

\* the scenario ran to its end
C10_Witness ==
    /\ scen = 5
    /\ \A r \in Replicas : spc[r] = "idle"

------------------------------------------------------------------------------
(* SpecStore: one clone and its remote; transactions, failing saves, and    *)
(* the clean check that guards sync and every mutating command              *)

\* the clones that run commands in SpecStore
Clones == {"A"}

\* every directory a failing save can leave when it starts from directory d:
\* phase 1 failed and the temporary files were cleaned up, a removal of phase 2
\* failed, or a rename of phase 3 failed
save_err(d, tbl, shard_characters) ==
    LET new == SavedDir(tbl, shard_characters)
        tmps == {TmpName(f.prefix) : f \in DOMAIN new}
        written == [f \in (DOMAIN d) \cup tmps |->
                       IF f \in tmps THEN new[FinalName(f.prefix)] ELSE d[f]]
        cleared == [f \in (DOMAIN written) \ Finals(d) |-> written[f]]
        phase1 == {[f \in (DOMAIN d) \ W |-> d[f]] : W \in SUBSET tmps}
        phase2 == {[f \in (DOMAIN written) \ R |-> written[f]] :
                      R \in (SUBSET Finals(d)) \ {Finals(d)}}
        phase3 == {[f \in ((DOMAIN cleared) \ {TmpName(g.prefix) : g \in S}) \cup S |->
                       IF f \in S THEN new[f] ELSE cleared[f]] :
                      S \in (SUBSET DOMAIN new) \ {DOMAIN new}}
    IN  phase1 \cup phase2 \cup phase3

\* the closures handed to a transaction: subscribe, unsubscribe, and a closure
\* that mutates the feeds table and then returns an error
Closures == [op : {"add", "remove", "add_then_err"}, key : SyncKeys]

\* the store a closure leaves behind and whether it returned Ok
run(f, st, now) ==
    IF f.op = "add" THEN [store |-> cmd_add(st, f.key, now), ok |-> TRUE]
    ELSE IF f.op = "remove"
         THEN IF IsLive(st["feeds"], f.key)
              THEN [store |-> cmd_remove(st, f.key, now), ok |-> TRUE]
              ELSE [store |-> st, ok |-> FALSE]
    ELSE [store |-> cmd_add(st, f.key, now), ok |-> FALSE]

\* a transaction that saves the tables although the closure failed
transaction_SavesAfterError(w, out) ==
    {[tree |-> SavedTree(w, out.store),
      result |-> IF out.ok THEN "Ok" ELSE "closure_err"]}

\* a transaction that saves posts before feeds
transaction_PostsFirst(w, out) ==
    IF ~out.ok THEN {[tree |-> w, result |-> "closure_err"]}
    ELSE LET posts_err == {[tree |-> [w EXCEPT !["posts"] = d], result |-> "save_posts_err"] :
                              d \in save_err(w["posts"], out.store["posts"], SHARD_CHARACTERS)}
             w1 == [w EXCEPT !["posts"] = save_ok(@, out.store["posts"], SHARD_CHARACTERS)]
             feeds_err == {[tree |-> [w1 EXCEPT !["feeds"] = d], result |-> "save_feeds_err"] :
                              d \in save_err(w1["feeds"], out.store["feeds"], FEEDS_SHARD_CHARACTERS)}
         IN  posts_err \cup feeds_err \cup {[tree |-> SavedTree(w, out.store), result |-> "Ok"]}

\* Store::transaction over working tree w, given what the closure left: every
\* way it can end.  f(&mut tx)?, then self.feeds.save()?, then self.posts.save()?
transaction(w, out) ==
    IF ~out.ok THEN {[tree |-> w, result |-> "closure_err"]}
    ELSE LET feeds_err == {[tree |-> [w EXCEPT !["feeds"] = d], result |-> "save_feeds_err"] :
                              d \in save_err(w["feeds"], out.store["feeds"], FEEDS_SHARD_CHARACTERS)}
             w1 == [w EXCEPT !["feeds"] = save_ok(@, out.store["feeds"], FEEDS_SHARD_CHARACTERS)]
             posts_err == {[tree |-> [w1 EXCEPT !["posts"] = d], result |-> "save_posts_err"] :
                              d \in save_err(w1["posts"], out.store["posts"], SHARD_CHARACTERS)}
         IN  feeds_err \cup posts_err \cup {[tree |-> SavedTree(w, out.store), result |-> "Ok"]}

InitStore ==
    /\ TableIdle
    /\ MergeIdle
    /\ commits = {InitialCommit}
    /\ origin = InitialCommit
    /\ head = [r \in Replicas |-> InitialCommit]
    /\ tracking = [r \in Replicas |-> InitialCommit]
    /\ wt = [r \in Replicas |-> EmptyTree]
    /\ mem = [r \in Replicas |-> EmptyStore]
    /\ spc = [r \in Replicas |-> "idle"]
    /\ log = [r \in Replicas |-> <<>>]
    /\ scen = -1
    /\ edits = 0
    /\ NoCall
    /\ WithRemote
    /\ ItemShards

\* outside the program, a shard file of the feeds table is written into the
\* working tree and not committed
ExternalEdit(r, key) ==
    LET id == hash_id(key, IdLength)
        written == SavedDir(Put(EmptyTable, id, Live(id, NewFeed(key), None)),
                            FEEDS_SHARD_CHARACTERS)
    IN  /\ spc[r] = "idle"
        /\ wt[r]["feeds"] # written
        /\ wt' = [wt EXCEPT ![r]["feeds"] = written]
        /\ UNCHANGED <<commits, origin, head, tracking, mem, spc, log, scen, edits,
                       returned, repo, self_shard_characters, tableVars, mergeVars>>

\* a mutating command: the clean check, the transaction, and the snapshot of
\* the store when the transaction succeeded
Transact(r, f, now) ==
    /\ spc[r] = "idle"
    /\ IF ~ensure_clean(wt[r], head[r])
       THEN /\ returned' = <<"transact", r, "DirtyTree">>
            /\ UNCHANGED <<commits, head, wt, edits>>
       ELSE /\ Room(1)
            /\ edits < MaxEdits
            /\ edits' = edits + 1
            /\ \E st \in Opened(wt[r]) :
                \E end \in transaction(wt[r], run(f, st, now)) :
                    /\ wt' = [wt EXCEPT ![r] = end.tree]
                    /\ commits' = IF end.result = "Ok"
                                  THEN auto_commit(r, end.tree, head[r]) ELSE commits
                    /\ head' = [head EXCEPT ![r] =
                                   IF end.result = "Ok"
                                   THEN HeadAfterCommit(r, end.tree, head[r]) ELSE @]
                    /\ returned' = <<"transact", r, end.result>>
    /\ UNCHANGED <<origin, tracking, mem, spc, log, scen, tableVars, mergeVars, repo, self_shard_characters>>

\* sync on a working tree with uncommitted changes: ensure_clean fails and
\* cmd_sync returns its error
SyncDirty(r) ==
    /\ spc[r] = "idle"
    /\ try_open_repo(r)
    /\ ~ensure_clean(wt[r], head[r])
    /\ returned' = <<"sync", r, "DirtyTree">>
    /\ UNCHANGED <<syncVars, tableVars, mergeVars, repo, self_shard_characters>>

NextStore ==
    \/ \E r \in Clones, key \in SyncKeys : ExternalEdit(r, key)
    \/ \E r \in Clones, f \in Closures, now \in 1..MaxClock : Transact(r, f, now)
    \/ \E r \in Clones : SyncDirty(r)
    \/ \E r \in Clones : SyncPull(r)
    \/ \E r \in Clones : SyncFetch(r)
    \/ \E r \in Clones : SyncFetchFail(r)
    \/ \E r \in Clones : UpToDate(r)
    \/ \E r \in Clones : LocalAhead(r)
    \/ \E r \in Clones : PushOnly(r)

SpecStore == InitStore /\ [][NextStore]_vars

------------------------------------------------------------------------------
(* The clean check and the transaction *)

\* the step starts cmd_sync in clone r
StartsSync(r) == SyncPull(r) \/ SyncDirty(r)

\* C11: a sync that starts while the working tree has uncommitted shard-file
\* changes fails with the uncommitted-changes error before anything else: no
\* feed is pulled, no table saved, no commit made, nothing fetched or pushed.
C11_DirtySyncFails ==
    [][\A r \in Replicas :
          (~is_clean(wt[r], head[r]) /\ StartsSync(r)) =>
              /\ returned' = <<"sync", r, "DirtyTree">>
              /\ UNCHANGED syncVars]_vars

\* a sync was refused on a working tree that holds an uncommitted shard file
C11_Witness ==
    /\ returned = <<"sync", "A", "DirtyTree">>
    /\ ~is_clean(wt["A"], head["A"])
    /\ head["A"] = InitialCommit

\* the data files of working tree w differ from those of working tree v
DataChanged(w, v) ==
    \E t \in Tables :
        \E f \in (DOMAIN w[t]) \cup (DOMAIN v[t]) :
            is_data_file(f) /\ ~(f \in DOMAIN w[t] /\ f \in DOMAIN v[t] /\ w[t][f] = v[t][f])

ClosureFails(r, f, now) == \A st \in Opened(wt[r]) : ~run(f, st, now).ok

\* C13: when the closure handed to a transaction returns an error, the
\* transaction returns that error, saves no table, and leaves the on-disk
\* state of every table unchanged.
C13_ClosureErrorSavesNothing ==
    [][\A r \in Replicas, f \in Closures, now \in 1..MaxClock :
          (Transact(r, f, now) /\ is_clean(wt[r], head[r]) /\ ClosureFails(r, f, now)) =>
              /\ returned' = <<"transact", r, "closure_err">>
              /\ wt' = wt
              /\ UNCHANGED <<commits, head>>]_vars

\* a closure failed on a store that already holds a committed feed
C13_Witness ==
    /\ returned = <<"transact", "A", "closure_err">>
    /\ is_clean(wt["A"], head["A"])
    /\ wt["A"]["feeds"] # <<>>

\* C14: when the closure succeeds the transaction saves every table, feeds
\* before posts; when a save fails its error is returned, the table saved
\* before keeps its new on-disk state and the table after it is left at its
\* old on-disk state.
C14_SaveOrder ==
    [][\A r \in Replicas, f \in Closures, now \in 1..MaxClock :
          (Transact(r, f, now) /\ is_clean(wt[r], head[r]) /\ ~ClosureFails(r, f, now)) =>
              \E st \in Opened(wt[r]) :
                  LET new == run(f, st, now).store
                  IN  \/ /\ returned' = <<"transact", r, "Ok">>
                         /\ wt'[r] = SavedTree(wt[r], new)
                      \/ /\ returned' = <<"transact", r, "save_feeds_err">>
                         /\ wt'[r]["posts"] = wt[r]["posts"]
                      \/ /\ returned' = <<"transact", r, "save_posts_err">>
                         /\ wt'[r]["feeds"] =
                                save_ok(wt[r]["feeds"], new["feeds"], FEEDS_SHARD_CHARACTERS)]_vars

\* the save of posts failed after the save of feeds wrote a new shard file
C14_Witness ==
    /\ returned = <<"transact", "A", "save_posts_err">>
    /\ Finals(wt["A"]["feeds"]) # {}
    /\ ~is_clean(wt["A"], head["A"])

------------------------------------------------------------------------------
(* SpecRows: the calls on one table, from every bounded directory *)

RowKeys == {"a", "c"}

\* the directories a store can be opened on: what a save left of a table whose
\* live rows may lack updated_at
Directories(sc) ==
    {SavedDir(m, sc) : m \in {t \in RowMaps(RowKeys) : WellKeyed(t)}}

\* the tables a remote branch can hold
Remotes == {m \in RowMaps({"a"}) : WellKeyed(m)}

InitRows ==
    /\ self_shard_characters \in {FEEDS_SHARD_CHARACTERS, SHARD_CHARACTERS}
    /\ items = EmptyTable
    /\ disk \in Directories(self_shard_characters)
    /\ pc = "idle"
    /\ shards = <<>>
    /\ pending = {}
    /\ tmp_paths = <<>>
    /\ failing = <<>>
    /\ clock = 1
    /\ ops = 0
    /\ lastResult = "none"
    /\ preSave = {EmptyTable}
    /\ preDisk = <<>>
    /\ MergeIdle
    /\ SyncIdle
    /\ NoCall
    /\ WithRemote

Called(op, key, ret) ==
    /\ ops < MaxCalls
    /\ ops' = ops + 1
    /\ returned' = [op |-> op, key |-> key, ret |-> ret]
    /\ UNCHANGED <<pc, saveLocals, clock, lastResult, history, mergeVars, syncVars, repo, self_shard_characters>>

\* table.upsert(item), Utc::now() reading now
CallUpsert(item, now) ==
    /\ items' = upsert(items, item, now)
    /\ disk' = disk
    /\ Called("upsert", item.raw_id, {})

\* table.delete(key), Utc::now() reading now
CallDelete(key, now) ==
    /\ items' = delete(items, key, now)
    /\ disk' = disk
    /\ Called("delete", key, delete_returns(items, key))

\* Table::load(dir)
CallLoad ==
    /\ items' \in load(disk)
    /\ disk' = disk
    /\ Called("load", "", {})

\* table.save() returning Ok, the map yielding its rows in some order
CallSave ==
    /\ \E values \in Orders(Range(items)) :
          disk' = save_in(disk, values, self_shard_characters)
    /\ items' = items
    /\ Called("save", "", {})

\* table.merge_remote(remote)
CallMergeRemote(remote) ==
    /\ items' = merge_remote(items, remote)
    /\ disk' = disk
    /\ Called("merge_remote", "", {})

NextRows ==
    \/ \E item \in Items, now \in 1..MaxClock : CallUpsert(item, now)
    \/ \E key \in Keys, now \in 1..MaxClock : CallDelete(key, now)
    \/ CallLoad
    \/ CallSave
    \/ \E remote \in Remotes : CallMergeRemote(remote)

SpecRows == InitRows /\ [][NextRows]_vars

------------------------------------------------------------------------------
(* Upsert, delete and the rows of a table *)

IdOf(key) == hash_id(key, IdLength)

HoldsLive(tbl, id) == id \in DOMAIN tbl /\ tbl[id].kind = "Live"

HoldsTombstone(tbl, id) == id \in DOMAIN tbl /\ tbl[id].kind = "Tombstone"

\* C15: upserting a payload equal to the payload of the live row at its id
\* leaves the table unchanged, updated_at included, whether the row was
\* upserted before or loaded from disk, with or without an updated_at.
C15_EqualUpsertIsNoOp ==
    [][\A item \in Items, now \in 1..MaxClock :
          (/\ CallUpsert(item, now)
           /\ HoldsLive(items, IdOf(item.raw_id))
           /\ items[IdOf(item.raw_id)].inner = item) => items' = items]_vars

\* a row loaded without updated_at was upserted with its own payload, at a
\* time the clock did not read None, and still has no updated_at
C15_Witness ==
    /\ returned # <<>>
    /\ returned.op = "upsert"
    /\ HoldsLive(items, IdOf(returned.key))
    /\ items[IdOf(returned.key)].updated_at = None

\* C16: upserting a payload that differs from the live row's payload replaces
\* the payload and sets updated_at to a value strictly greater than the row's
\* previous updated_at.
C16_ChangedUpsertAdvances ==
    [][\A item \in Items, now \in 1..MaxClock :
          (/\ CallUpsert(item, now)
           /\ HoldsLive(items, IdOf(item.raw_id))
           /\ items[IdOf(item.raw_id)].inner # item) =>
              /\ HoldsLive(items', IdOf(item.raw_id))
              /\ items'[IdOf(item.raw_id)].inner = item
              /\ items'[IdOf(item.raw_id)].updated_at
                     > items[IdOf(item.raw_id)].updated_at]_vars

\* C17: delete of a key that holds a live row replaces the row by a tombstone
\* and returns the id; delete of a key that is absent or already a tombstone
\* returns None and leaves the table as it is, the tombstone's deleted_at
\* included; the rows at other ids are never touched.
C17_DeleteTombstonesLiveOnly ==
    [][\A key \in Keys, now \in 1..MaxClock :
          CallDelete(key, now) =>
              /\ DOMAIN items' = DOMAIN items
              /\ \A id \in (DOMAIN items) \ {IdOf(key)} : items'[id] = items[id]
              /\ IF HoldsLive(items, IdOf(key))
                 THEN /\ returned'.ret = {IdOf(key)}
                      /\ items'[IdOf(key)] = Tombstone(IdOf(key), now)
                 ELSE /\ returned'.ret = {}
                      /\ items' = items]_vars

\* a delete found a tombstone written at another time and left it alone
C17_Witness ==
    /\ returned # <<>>
    /\ returned.op = "delete"
    /\ returned.ret = {}
    /\ HoldsTombstone(items, IdOf(returned.key))
    /\ \E id \in DOMAIN items : id # IdOf(returned.key)

\* C18: an upsert of a key whose id holds a tombstone, made in memory or
\* loaded from disk, leaves exactly one row at that id: a live row with the
\* new payload; the tombstone is gone.
C18_UpsertResurrects ==
    [][\A item \in Items, now \in 1..MaxClock :
          (CallUpsert(item, now) /\ HoldsTombstone(items, IdOf(item.raw_id))) =>
              /\ items'[IdOf(item.raw_id)] = Live(IdOf(item.raw_id), item, now)
              /\ {t \in Tombstones(items') : t[1] = IdOf(item.raw_id)} = {}
              /\ {l \in LiveRows(items') : l[1] = IdOf(item.raw_id)}
                     = {<<IdOf(item.raw_id), item, now>>}
              /\ item \in items_of(items')]_vars

\* the directory still holds the tombstone of a key that is live in memory
\* after an upsert
C18_Witness ==
    /\ returned # <<>>
    /\ returned.op = "upsert"
    /\ HoldsLive(items, IdOf(returned.key))
    /\ \E d \in load(disk) : HoldsTombstone(d, IdOf(returned.key))

\* items() yields no payload for the id
Hidden(tbl, id) == \A payload \in items_of(tbl) : IdOf(payload.raw_id) # id

\* the line of the row is in the shard file of its id
OnDisk(d, row) ==
    LET f == FinalName(shard_key(row.id, self_shard_characters))
    IN  f \in DOMAIN d /\ \E i \in 1..Len(d[f]) : d[f][i] = to_string(row)

\* C19: once delete turned a live row into a tombstone, items() yields no
\* payload for that id until the key is upserted again, across any number of
\* save and load round trips; save writes the tombstone with its deleted_at.
C19_DeletedStaysHidden ==
    [][/\ \A key \in Keys, now \in 1..MaxClock :
            (CallDelete(key, now) /\ HoldsLive(items, IdOf(key))) =>
                /\ HoldsTombstone(items', IdOf(key))
                /\ items'[IdOf(key)].deleted_at = now
                /\ Hidden(items', IdOf(key))
       /\ \A id \in DOMAIN items :
            (/\ HoldsTombstone(items, id)
             /\ returned'.op \in {"delete", "save", "load"}
             /\ returned'.op = "load" => items \in load(disk)) =>
                /\ items'[id] = items[id]
                /\ Hidden(items', id)
                /\ returned'.op = "save" => OnDisk(disk', items[id])]_vars

\* key "b" is in no initial directory and in no remote table: its tombstone
\* was made by delete, saved, and loaded back
C19_Witness ==
    /\ returned # <<>>
    /\ returned.op = "load"
    /\ HoldsTombstone(items, IdOf("b"))
    /\ OnDisk(disk, items[IdOf("b")])
    /\ Hidden(items, IdOf("b"))

\* C20: in every table reached by load, upsert, delete and merge_remote there
\* is at most one row per id, so a live row and a tombstone never share an
\* id, and the row stored under an id carries that id.
C20_OneRowPerId ==
    /\ \A id \in DOMAIN items : items[id].id = id
    /\ \A i, j \in DOMAIN items : items[i].id = items[j].id => i = j
    /\ \A l \in LiveRows(items), t \in Tombstones(items) : l[1] # t[1]

\* a table that holds a live row and a tombstone at two ids, after a merge
C20_Witness ==
    /\ returned # <<>>
    /\ returned.op = "merge_remote"
    /\ ops = MaxCalls
    /\ \E i, j \in DOMAIN items : items[i].kind = "Live" /\ items[j].kind = "Tombstone"

------------------------------------------------------------------------------
(* SpecGit: is_clean and auto_commit over working trees that also hold lock *)
(* files, temporary files and other files                                   *)

\* the .lock file of a table directory
LockFile == [stem |-> ".lock", prefix |-> <<>>, ext |-> ""]

\* a file of a table directory that is no shard file but ends with .jsonl
NotesFile == [stem |-> "notes", prefix |-> <<>>, ext |-> ".jsonl"]

\* a file of a table directory that is neither
TextFile == [stem |-> "random", prefix |-> <<>>, ext |-> ".txt"]

\* the file names written in SpecGit
FileNames == {FinalName(<<>>), FinalName(<<0>>), TmpName(<<>>), LockFile, NotesFile, TextFile}

\* the contents written in SpecGit
Contents == {<<to_string(Live(IdOf("a"), Item("a", t), 1))>> : t \in Titles}

InitGit ==
    /\ TableIdle
    /\ MergeIdle
    /\ commits = {InitialCommit}
    /\ origin = NoCommit
    /\ head = [r \in Replicas |-> InitialCommit]
    /\ tracking = [r \in Replicas |-> NoCommit]
    /\ wt = [r \in Replicas |-> EmptyTree]
    /\ mem = [r \in Replicas |-> EmptyStore]
    /\ spc = [r \in Replicas |-> "idle"]
    /\ log = [r \in Replicas |-> <<>>]
    /\ scen = -1
    /\ edits = 0
    /\ NoCall
    /\ WithRemote
    /\ ItemShards

\* a file of a table directory is written: by a save, by the lock, by the user
WriteFile(r, t, f, content) ==
    /\ edits < MaxWrites
    /\ edits' = edits + 1
    /\ wt' = [wt EXCEPT ![r][t] = Put(@, f, content)]
    /\ returned' = [op |-> "write", ret |-> {}]
    /\ UNCHANGED <<commits, origin, head, tracking, mem, spc, log, scen, tableVars, mergeVars, repo, self_shard_characters>>

\* a file of a table directory is removed
RemoveFile(r, t, f) ==
    /\ edits < MaxWrites
    /\ f \in DOMAIN wt[r][t]
    /\ edits' = edits + 1
    /\ wt' = [wt EXCEPT ![r][t] = Remove(@, {f})]
    /\ returned' = [op |-> "remove", ret |-> {}]
    /\ UNCHANGED <<commits, origin, head, tracking, mem, spc, log, scen, tableVars, mergeVars, repo, self_shard_characters>>

\* git::is_clean(repo)
CallIsClean(r) ==
    /\ returned' = [op |-> "is_clean", ret |-> {is_clean(wt[r], head[r])}]
    /\ UNCHANGED <<syncVars, tableVars, mergeVars, repo, self_shard_characters>>

\* git::auto_commit(repo, message)
CallAutoCommit(r) ==
    /\ Room(1)
    /\ commits' = auto_commit(r, wt[r], head[r])
    /\ head' = [head EXCEPT ![r] = HeadAfterCommit(r, wt[r], head[r])]
    /\ returned' = [op |-> "auto_commit", ret |-> {}]
    /\ UNCHANGED <<origin, tracking, wt, mem, spc, log, scen, edits, tableVars, mergeVars, repo, self_shard_characters>>

NextGit ==
    \/ \E r \in Clones, t \in Tables, f \in FileNames, content \in Contents :
          WriteFile(r, t, f, content)
    \/ \E r \in Clones, t \in Tables, f \in FileNames : RemoveFile(r, t, f)
    \/ \E r \in Clones : CallIsClean(r)
    \/ \E r \in Clones : CallAutoCommit(r)

SpecGit == InitGit /\ [][NextGit]_vars

------------------------------------------------------------------------------
(* is_clean and auto_commit *)

\* C21: auto_commit creates a commit only if something changed: whenever the
\* tree it would commit equals HEAD's tree, no commit is created and HEAD is
\* unchanged.
C21_NoChangeNoCommit ==
    [][\A r \in Replicas :
          (CallAutoCommit(r) /\ StagedTree(wt[r], head[r]) = TreeOf(head[r])) =>
              /\ commits' = commits
              /\ head' = head]_vars

\* the shard files of directory d, with their content
ShardFiles(d) == [f \in Finals(d) |-> d[f]]

\* C22: after auto_commit the tree of HEAD holds exactly the shard files that
\* are on disk: no lock file, no temporary file, no other file, and no shard
\* file that was removed from disk.
C22_TreeIsShardFiles ==
    (returned # <<>> /\ returned.op = "auto_commit") =>
        \A r \in Clones, t \in Tables : TreeOf(head[r])[t] = ShardFiles(wt[r][t])

\* a commit was made while a lock file was on disk and after a committed
\* shard file had been removed from disk
C22_Witness ==
    /\ returned # <<>>
    /\ returned.op = "auto_commit"
    /\ LockFile \in DOMAIN wt["A"]["feeds"]
    /\ FinalName(<<0>>) \notin DOMAIN TreeOf(head["A"])["feeds"]
    /\ \E c \in Ancestors(head["A"]) : FinalName(<<0>>) \in DOMAIN TreeOf(c)["feeds"]

\* some file matching <table>/items_*.jsonl is changed, deleted or untracked
ShardFileChanged(w, c) ==
    \E t \in Tables : ShardFiles(w[t]) # ShardFiles(TreeOf(c)[t])

\* C23: the working tree counts as dirty if and only if some changed, deleted
\* or untracked file matches <table>/items_*.jsonl; lock files, temporary
\* files and any other file never make it dirty.
C23_DirtyIffShardFileChanged ==
    (returned # <<>> /\ returned.op = "is_clean") =>
        \A r \in Clones : returned.ret = {~ShardFileChanged(wt[r], head[r])}

------------------------------------------------------------------------------
(* Sync without news *)

\* what every subscribed feed serves is already in the store
AllStored(st) ==
    \A source \in items_of(st["feeds"]) :
        /\ Fetched(source) = source
        /\ PostOf(source) \in items_of(st["posts"])

\* clone r is in sync with the remote and its feeds serve nothing new
Quiet(r) ==
    /\ head[r] = origin
    /\ tracking[r] = origin
    /\ is_clean(wt[r], head[r])
    /\ \A st \in Opened(wt[r]) : AllStored(st)

\* the step leaves every shard file of clone r as it was
SameShardFiles(r) ==
    \A t \in Tables : ShardFiles(wt'[r][t]) = ShardFiles(wt[r][t])

------------------------------------------------------------------------------
(* SpecOffline: sync of one store without a repository, with a repository   *)
(* that has no remote, and with a repository that has one                   *)

\* the stores a sync starts from: each subscribed feed as the subscription
\* wrote it, without updated_at
Subscribed(keys) ==
    [feeds |-> [id \in {IdOf(k) : k \in keys} |->
                   Live(id, NewFeed(CHOOSE k \in keys : IdOf(k) = id), None)],
     posts |-> EmptyTable]

\* the commit that holds the given working tree
Committed(w) == [parents |-> <<>>, tree |-> w, by |-> "init"]

InitOffline ==
    /\ TableIdle
    /\ MergeIdle
    /\ repo \in {c \in [Replicas -> {"none", "local", "remote"}] :
                    \A r \in Replicas \ Clones : c[r] = "remote"}
    /\ \E keys \in SUBSET SyncKeys :
          /\ wt = [r \in Replicas |-> SavedTree(EmptyTree, Subscribed(keys))]
          /\ head = [r \in Replicas |->
                        IF repo[r] = "none" THEN NoCommit
                        ELSE Committed(SavedTree(EmptyTree, Subscribed(keys)))]
          /\ commits = {Committed(SavedTree(EmptyTree, Subscribed(keys)))}
    /\ origin = NoCommit
    /\ tracking = [r \in Replicas |-> NoCommit]
    /\ mem = [r \in Replicas |-> EmptyStore]
    /\ spc = [r \in Replicas |-> "idle"]
    /\ log = [r \in Replicas |-> <<>>]
    /\ scen = -1
    /\ edits = 0
    /\ NoCall
    /\ ItemShards

\* sync without a repository: the pull transaction and its save, then Ok
SyncOffline(r) ==
    /\ spc[r] = "idle"
    /\ ~try_open_repo(r)
    /\ \E st \in Opened(wt[r]), now \in 1..MaxClock :
        \E ok \in SUBSET items_of(st["feeds"]) :
            LET pulled == cmd_pull(st, ok, now)
            IN  /\ pulled # st => edits < MaxEdits
                /\ edits' = IF pulled # st THEN edits + 1 ELSE edits
                /\ wt' = [wt EXCEPT ![r] = SavedTree(wt[r], pulled)]
    /\ returned' = <<"sync", r, "Ok">>
    /\ UNCHANGED <<commits, origin, head, tracking, mem, spc, log, scen, repo, self_shard_characters,
                   tableVars, mergeVars>>

\* sync in a repository without a remote: the pull transaction, its save and
\* auto_commit "pull feeds", then the warning and Ok
SyncNoRemote(r) ==
    /\ spc[r] = "idle"
    /\ try_open_repo(r)
    /\ ~has_remote(r)
    /\ ensure_clean(wt[r], head[r])
    /\ Room(1)
    /\ \E st \in Opened(wt[r]), now \in 1..MaxClock :
        \E ok \in SUBSET items_of(st["feeds"]) :
            LET pulled == cmd_pull(st, ok, now)
                saved == SavedTree(wt[r], pulled)
            IN  /\ pulled # st => edits < MaxEdits
                /\ edits' = IF pulled # st THEN edits + 1 ELSE edits
                /\ wt' = [wt EXCEPT ![r] = saved]
                /\ commits' = auto_commit(r, saved, head[r])
                /\ head' = [head EXCEPT ![r] = HeadAfterCommit(r, saved, head[r])]
    /\ returned' = <<"sync", r, "Ok, no remote">>
    /\ UNCHANGED <<origin, tracking, mem, spc, log, scen, repo, self_shard_characters, tableVars, mergeVars>>

NextOffline ==
    \/ \E r \in Clones : SyncOffline(r)
    \/ \E r \in Clones : SyncNoRemote(r)
    \/ \E r \in Clones : SyncPull(r)
    \/ \E r \in Clones : FirstPush(r)
    \/ \E r \in Clones : SyncFetch(r)
    \/ \E r \in Clones : SyncFetchFail(r)
    \/ \E r \in Clones : UpToDate(r)
    \/ \E r \in Clones : LocalAhead(r)
    \/ \E r \in Clones : PushOnly(r)

SpecOffline == InitOffline /\ [][NextOffline]_vars

------------------------------------------------------------------------------
(* Sync without a repository or without a remote *)

\* the step starts cmd_sync in clone r, whatever the store is set up as
StartsAnySync(r) == SyncPull(r) \/ SyncOffline(r) \/ SyncNoRemote(r) \/ SyncDirty(r)

\* the working tree a pull transaction can leave from working tree w
PullSaves(w) ==
    UNION {{SavedTree(w, cmd_pull(st, ok, now)) :
               ok \in SUBSET items_of(st["feeds"]), now \in 1..MaxClock} :
           st \in Opened(w)}

\* C25: sync runs no fetch, push, merge or commit it has no target for.
\* Without a repository it runs the feed transaction, saves and returns Ok
\* without any operation on a repository; with a repository that has no
\* remote it auto-commits, warns and returns Ok without fetch or push.
C25_SyncWithoutTarget ==
    [][\A r \in Clones :
          /\ (StartsAnySync(r) /\ repo[r] = "none") =>
                /\ returned' = <<"sync", r, "Ok">>
                /\ wt'[r] \in PullSaves(wt[r])
                /\ UNCHANGED <<commits, origin, head, tracking, spc, log>>
          /\ (StartsAnySync(r) /\ repo[r] = "local" /\ is_clean(wt[r], head[r])) =>
                /\ returned' = <<"sync", r, "Ok, no remote">>
                /\ wt'[r] \in PullSaves(wt[r])
                /\ is_clean(wt'[r], head'[r])
                /\ head'[r] \in commits'
                /\ UNCHANGED <<origin, tracking, spc, log>>
          /\ repo[r] # "remote" => spc'[r] = "idle"]_vars

\* a sync without a remote committed what it pulled and returned
C25_Witness ==
    /\ returned = <<"sync", "A", "Ok, no remote">>
    /\ repo["A"] = "local"
    /\ head["A"].parents # <<>>
    /\ origin = NoCommit
    /\ spc["A"] = "idle"

------------------------------------------------------------------------------
(* Feeds that fail to fetch *)

\* the row table tbl holds at the id of key, as a set: empty when it holds none
RowAt(tbl, key) == IF IdOf(key) \in DOMAIN tbl THEN {tbl[IdOf(key)]} ELSE {}

\* store new is store old after a pull in which exactly the sources in ok
\* were fetched
PulledExactly(old, new, ok) ==
    /\ \A source \in ok :
          /\ Fetched(source) \in items_of(new["feeds"])
          /\ PostOf(source) \in items_of(new["posts"])
    /\ \A source \in items_of(old["feeds"]) \ ok :
          /\ RowAt(new["feeds"], source.raw_id) = RowAt(old["feeds"], source.raw_id)
          /\ RowAt(new["posts"], source.raw_id) = RowAt(old["posts"], source.raw_id)

\* C26: in the feed transaction of sync a feed whose fetch fails does not
\* abort the transaction: the rows of every feed whose fetch succeeded are
\* upserted and saved, the rows of a failing feed stay as they were, and the
\* sync goes on to succeed.
C26_FailedFetchIsIsolated ==
    [][\A r \in Clones :
          (SyncPull(r) \/ SyncOffline(r) \/ SyncNoRemote(r)) =>
              /\ \E old \in Opened(wt[r]), new \in Opened(wt'[r]) :
                    \E ok \in SUBSET items_of(old["feeds"]) :
                        PulledExactly(old, new, ok)
              /\ \/ returned' \in {<<"sync", r, "Ok">>, <<"sync", r, "Ok, no remote">>}
                 \/ spc'[r] \in {"fetch", "first_push"}]_vars

\* one feed was fetched and saved while the other, whose fetch failed, is
\* still the row the subscription wrote
C26_Witness ==
    /\ returned = <<"sync", "A", "Ok">>
    /\ \E st \in Opened(wt["A"]) :
          /\ Fetched(NewFeed("a")) \in items_of(st["feeds"])
          /\ PostOf(NewFeed("a")) \in items_of(st["posts"])
          /\ RowAt(st["feeds"], "b") = {Live(IdOf("b"), NewFeed("b"), None)}
          /\ RowAt(st["posts"], "b") = {}

------------------------------------------------------------------------------
(* Where save puts a row *)

\* the first n characters of id
FirstChars(id, n) == [i \in 1..Min(n, Len(id)) |-> id[i]]

\* the files of directory d with a line for the id
FilesWithId(d, id) ==
    {f \in DOMAIN d : \E i \in 1..Len(d[f]) : from_str(d[f][i]).id = id}

\* C27: after a successful save every row of the table, live or tombstone, is
\* in the file items_<first S characters of its id>.jsonl and in no other file
\* of the directory, S being the shard characters of the table; with S = 0
\* every row is in items_.jsonl.
C27_RowInItsShardFile ==
    (returned # <<>> /\ returned.op = "save") =>
        /\ \A id \in DOMAIN items :
              /\ FilesWithId(disk, id) =
                    {FinalName(FirstChars(id, self_shard_characters))}
              /\ \E i \in 1..Len(disk[FinalName(FirstChars(id, self_shard_characters))]) :
                    disk[FinalName(FirstChars(id, self_shard_characters))][i] =
                        to_string(items[id])
        /\ (self_shard_characters = 0 /\ items # EmptyTable) =>
              Finals(disk) = {FinalName(<<>>)}

\* a table without sharding was saved with a live row and a tombstone whose
\* ids start with different characters
C27_Witness ==
    /\ returned # <<>>
    /\ returned.op = "save"
    /\ self_shard_characters = 0
    /\ HoldsLive(items, IdOf("a"))
    /\ HoldsTombstone(items, IdOf("c"))
    /\ Len(disk[FinalName(<<>>)]) = 2

------------------------------------------------------------------------------
(* What save writes does not depend on the order of the map *)

\* the lines of every shard file of d are in ascending order of id
SortedShards(d) ==
    \A f \in Finals(d) : \A i, j \in 1..Len(d[f]) :
        i < j => IdLess(from_str(d[f][i]).id, from_str(d[f][j]).id)

\* C28: for one in-memory table, save writes the same shard files with the
\* same content in whatever order the map yields its rows, the lines of each
\* shard file in ascending order of id; saving a table that was just loaded
\* rewrites the content it was loaded from.
C28_SaveIsDeterministic ==
    [][CallSave =>
          /\ \A values \in Orders(Range(items)) :
                disk' = save_in(disk, values, self_shard_characters)
          /\ SortedShards(disk')
          /\ (returned # <<>> /\ returned.op = "load") => disk' = disk]_vars

\* a loaded table with two rows in one shard file was saved
C28_Witness ==
    /\ returned # <<>>
    /\ returned.op = "save"
    /\ \E f \in Finals(disk) : Len(disk[f]) = 2
    /\ ops = 2
    /\ items \in load(disk)

------------------------------------------------------------------------------
(* SpecLoad: Table::load on directories whose files may be unreadable *)

\* Table::load(dir) when opening fails for the shard files in closed and
\* reading fails for the shard files in broken
CallLoadUnreadable(closed, broken) ==
    /\ closed \cup broken # {}
    /\ closed \cap broken = {}
    /\ closed \cup broken \subseteq Finals(disk)
    /\ \E loaded \in load_from(disk, closed, broken) :
          /\ items' = IF loaded.result = "Err" THEN items ELSE loaded.table
          /\ Called("load", "", {loaded.result})
    /\ disk' = disk

NextLoad ==
    \/ CallLoad
    \/ \E closed, broken \in SUBSET Finals(disk) : CallLoadUnreadable(closed, broken)

SpecLoad == InitRows /\ [][NextLoad]_vars

------------------------------------------------------------------------------
(* Unreadable shard files *)

\* C29: load fails with an error whenever a file named items_<prefix>.jsonl
\* exists in the table directory and cannot be opened or read; it never
\* returns a table that leaves out the rows of that file.
C29_UnreadableFileFailsLoad ==
    [][\A closed, broken \in SUBSET Finals(disk) :
          CallLoadUnreadable(closed, broken) => returned'.ret = {"Err"}]_vars

\* a load that returned a table although a shard file with rows could not be
\* opened
C29_OmittedRows ==
    /\ returned # <<>>
    /\ returned.op = "load"
    /\ returned.ret = {"Ok"}
    /\ items \notin load(disk)

------------------------------------------------------------------------------
(* Leftover temporary files *)

\* directory d without every file that is not named items_<prefix>.jsonl
FinalFilesOf(d) ==
    [f \in {g \in DOMAIN d : g.stem = "items_" /\ g.ext = ".jsonl"} |-> d[f]]

\* C30: load reads no row from a leftover items_<prefix>.jsonl.tmp file, and
\* after a crash that left temporaries behind or final files missing, the
\* next save that succeeds makes the final shard files on disk equal to the
\* table in memory.
C30_TemporariesIgnoredAndHealed ==
    [][/\ (Load \/ Crash) => items' \in load(FinalFilesOf(disk))
       /\ (pc' = "idle" /\ lastResult' = "ok") =>
              FinalFilesOf(disk') = SavedDir(items', self_shard_characters)]_vars

\* a save succeeded in a directory where a crashed save had left a temporary
\* file and no final file
C30_Witness ==
    /\ pc = "idle"
    /\ lastResult = "ok"
    /\ Temporaries(disk) # {}
    /\ items # EmptyTable

------------------------------------------------------------------------------
(* The shard files a save leaves *)

\* C31: after a successful save the final shard files of the directory are
\* exactly those of the shard keys that have a row in memory: the shard file
\* of a shard without rows is deleted, and the save of an empty table leaves
\* no shard file.
C31_ShardFilesAreShardsWithRows ==
    (returned # <<>> /\ returned.op = "save") =>
        Finals(disk) = {FinalName(FirstChars(id, self_shard_characters)) : id \in DOMAIN items}

\* a table whose only row is that of key "c" was saved by the second call:
\* the shard file of that row is the only one left
C31_Witness ==
    /\ returned # <<>>
    /\ returned.op = "save"
    /\ ops = 2
    /\ self_shard_characters = 1
    /\ DOMAIN items = {IdOf("c")}
    /\ Finals(disk) = {FinalName(<<1>>)}

------------------------------------------------------------------------------
(* The working tree after auto_commit *)

\* C32: whenever auto_commit returned Ok the working tree is clean right
\* afterwards: is_clean returns true, so an ensure_clean that follows does
\* not fail.
C32_CleanAfterAutoCommit ==
    (returned # <<>> /\ returned.op = "auto_commit") =>
        \A r \in Clones : is_clean(wt[r], head[r]) /\ ensure_clean(wt[r], head[r])

------------------------------------------------------------------------------
(* The first sync *)

\* C33: with a remote configured and no remote-tracking branch in the clone,
\* sync pushes HEAD and returns without a fetch, a merge_remote or a merge
\* commit; when that push fails, sync returns the error of the push.
C33_FirstSyncOnlyPushes ==
    [][\A r \in Replicas :
          /\ (SyncPull(r) /\ tracking[r] = NoCommit) => spc'[r] = "first_push"
          /\ (spc[r] = "first_push" /\ spc'[r] # spc[r]) =>
                /\ spc'[r] = "idle"
                /\ log[r] = <<"pull", "auto_commit">>
                /\ UNCHANGED <<commits, head, wt>>
                /\ \/ /\ returned' = <<"sync", r, "Ok">>
                      /\ origin' = head[r]
                      /\ tracking'[r] = head[r]
                   \/ /\ returned' = <<"sync", r, "PushError">>
                      /\ origin' = origin
                      /\ tracking'[r] = NoCommit]_vars

\* the first sync of clone B ended with the error of its push: the remote
\* branch holds commits of clone A
C33_Witness ==
    /\ returned = <<"sync", "B", "PushError">>
    /\ tracking["B"] = NoCommit
    /\ origin # NoCommit
    /\ head["B"] # NoCommit
    /\ spc["B"] = "idle"

------------------------------------------------------------------------------
(* SpecInstance: transactions on one Store instance that stays in memory *)

\* store.transaction(f) on the instance whose tables are mem[r]: the closure
\* mutates the tables through its &mut handles, its error returns before the
\* saves, and the tables keep what the closure did to them.  Every write of
\* the saves succeeds.
StoreTransaction(r, f, now) ==
    /\ ops < MaxCalls
    /\ ops' = ops + 1
    /\ LET out == run(f, mem[r], now)
       IN  /\ mem' = [mem EXCEPT ![r] = out.store]
           /\ \E end \in {e \in transaction(wt[r], out) : e.result \in {"Ok", "closure_err"}} :
                 /\ wt' = [wt EXCEPT ![r] = end.tree]
                 /\ returned' = <<"transaction", r, end.result>>
    /\ UNCHANGED <<items, disk, pc, saveLocals, clock, lastResult, history, mergeVars,
                   commits, origin, head, tracking, spc, log, scen, edits, repo,
                   self_shard_characters>>

\* the instance is dropped and Store::open loads a new one
StoreOpen(r) ==
    /\ mem[r] \notin Opened(wt[r])
    /\ mem' \in {[mem EXCEPT ![r] = st] : st \in Opened(wt[r])}
    /\ returned' = <<"open", r, "Ok">>
    /\ UNCHANGED <<tableVars, mergeVars, commits, origin, head, tracking, wt, spc, log,
                   scen, edits, repo, self_shard_characters>>

NextInstance ==
    \/ \E r \in Clones, f \in Closures, now \in 1..MaxClock : StoreTransaction(r, f, now)
    \/ \E r \in Clones : StoreOpen(r)

SpecInstance == InitStore /\ [][NextInstance]_vars

------------------------------------------------------------------------------
(* What a failed closure leaves in memory *)

\* C34: what a closure that returned an error did to the tables in memory is
\* never written to disk by a later successful transaction on the same Store
\* instance: a successful transaction adds to the disk the effects of its own
\* closure and nothing else.
C34_FailedClosureNeverWritten ==
    [][\A r \in Clones, f \in Closures, now \in 1..MaxClock :
          (StoreTransaction(r, f, now) /\ returned' = <<"transaction", r, "Ok">>) =>
              \E st \in Opened(wt[r]) :
                  wt'[r] = SavedTree(wt[r], run(f, st, now).store)]_vars

\* the same property for the transactions of an instance that holds what the
\* disk holds
FreshInstanceWritesOwnEffects ==
    [][\A r \in Clones, f \in Closures, now \in 1..MaxClock :
          (/\ StoreTransaction(r, f, now)
           /\ returned' = <<"transaction", r, "Ok">>
           /\ mem[r] \in Opened(wt[r])) =>
              \E st \in Opened(wt[r]) :
                  wt'[r] = SavedTree(wt[r], run(f, st, now).store)]_vars

------------------------------------------------------------------------------
(* Ids are never removed *)

\* the ids of the lines in the shard files of directory d
IdsOnDisk(d) ==
    UNION {{from_str(d[f][i]).id : i \in 1..Len(d[f])} : f \in Finals(d)}

\* C35: no operation on a table removes an id: upsert, delete and
\* merge_remote keep every id the table holds, live or tombstone; save writes
\* every id of the table, and load returns every id of the files, so a table
\* that is saved and loaded again holds the ids it held.  A tombstone is never
\* collected.
C35_IdsNeverRemoved ==
    [][/\ (\/ \E item \in Items, now \in 1..MaxClock : CallUpsert(item, now)
           \/ \E key \in Keys, now \in 1..MaxClock : CallDelete(key, now)
           \/ \E remote \in Remotes : CallMergeRemote(remote)
           \/ CallSave) => DOMAIN items \subseteq DOMAIN items'
       /\ CallSave => IdsOnDisk(disk') = DOMAIN items
       /\ CallLoad => DOMAIN items' = IdsOnDisk(disk)
       /\ (CallLoad /\ returned # <<>> /\ returned.op = "save") => DOMAIN items' = DOMAIN items
       /\ \A remote \in Remotes :
             CallMergeRemote(remote) => DOMAIN remote \subseteq DOMAIN items']_vars

\* a row was upserted, deleted, saved and loaded again: the table holds its
\* tombstone
C35_Witness ==
    /\ returned # <<>>
    /\ returned.op = "load"
    /\ ops = 4
    /\ HoldsTombstone(items, IdOf("b"))

------------------------------------------------------------------------------
(* What a successful sync leaves *)

\* sync of clone r returns Ok in this step
SyncReturnsOk(r) == returned' = <<"sync", r, "Ok">> /\ spc[r] # "idle" /\ spc'[r] = "idle"

------------------------------------------------------------------------------
(* Two clones pushing to one remote *)

\* the rows of the shard files in the tree of commit c, per table
RowsIn(c) ==
    [t \in Tables |-> UNION {{TreeOf(c)[t][f][i] : i \in 1..Len(TreeOf(c)[t][f])} :
                                f \in DOMAIN TreeOf(c)[t]}]

\* C37: when two clones sync against one remote at the same time, the remote
\* branch only moves to a descendant of the commit it held: a clone whose
\* push comes after the push of the other clone gets the error of the push
\* and overwrites nothing, every commit that was reachable from the remote
\* branch stays reachable, and so does every row those commits hold.
C37_RemoteOnlyMovesForward ==
    [][/\ origin' # origin =>
             /\ origin = NoCommit \/ graph_descendant_of(origin', origin)
             /\ Ancestors(origin) \subseteq Ancestors(origin')
             /\ \A c \in Ancestors(origin) : \E d \in Ancestors(origin') : RowsIn(d) = RowsIn(c)
       /\ \A r \in Replicas :
             (/\ spc[r] \in {"first_push", "push_only", "push"}
              /\ spc'[r] = "idle"
              /\ ~(origin = NoCommit \/ origin \in Ancestors(head[r]))) =>
                 /\ origin' = origin
                 /\ returned' = <<"sync", r, "PushError">>]_vars

\* clone B was ahead of the remote branch it fetched, clone A pushed first,
\* and the push of B was refused
C37_Witness ==
    /\ returned = <<"sync", "B", "PushError">>
    /\ tracking["B"] # NoCommit
    /\ graph_descendant_of(head["B"], tracking["B"])
    /\ origin \notin Ancestors(head["B"])
    /\ graph_descendant_of(origin, tracking["B"])
    /\ origin.by = "A"

------------------------------------------------------------------------------
(* SpecQuiesce: two clones with the same rows that only sync *)

\* the tree both clones hold: each subscribed to feed "a" at the same time
SameRowsTree == SavedTree(EmptyTree, cmd_add(EmptyStore, "a", 1))

\* both clones were cloned from the initial commit and committed the same
\* rows; from here on no feed serves anything new and no command but sync runs
InitQuiesce ==
    /\ TableIdle
    /\ MergeIdle
    /\ origin = InitialCommit
    /\ tracking = [r \in Replicas |-> InitialCommit]
    /\ wt = [r \in Replicas |-> SameRowsTree]
    /\ head = [r \in Replicas |-> Snapshot(r, SameRowsTree, InitialCommit)]
    /\ commits = {InitialCommit} \cup
                     {Snapshot(r, SameRowsTree, InitialCommit) : r \in Replicas}
    /\ mem = [r \in Replicas |-> EmptyStore]
    /\ spc = [r \in Replicas |-> "idle"]
    /\ log = [r \in Replicas |-> <<>>]
    /\ scen = -1
    /\ edits = MaxEdits
    /\ NoCall
    /\ WithRemote
    /\ ItemShards

NextQuiesce ==
    \/ \E r \in Replicas : SyncPull(r)
    \/ \E r \in Replicas : SyncFetch(r)
    \/ \E r \in Replicas : UpToDate(r)
    \/ \E r \in Replicas : LocalAhead(r)
    \/ \E r \in Replicas : PushOnly(r)
    \/ \E r \in Replicas : MergeRemote(r)
    \/ \E r \in Replicas : SyncSave(r)
    \/ \E r \in Replicas : SyncAutoCommit(r)
    \/ \E r \in Replicas : MergeOurs(r)
    \/ \E r \in Replicas : SyncPush(r)

\* the steps of one sync of clone r whose fetch succeeds
Syncing(r) ==
    \/ SyncPull(r)
    \/ SyncFetch(r)
    \/ UpToDate(r)
    \/ LocalAhead(r)
    \/ PushOnly(r)
    \/ MergeRemote(r)
    \/ SyncSave(r)
    \/ SyncAutoCommit(r)
    \/ MergeOurs(r)
    \/ SyncPush(r)

\* each clone keeps syncing: a started sync runs to its end, and the user of
\* each clone runs sync again
SpecQuiesce ==
    InitQuiesce /\ [][NextQuiesce]_vars /\ \A r \in Replicas : WF_vars(Syncing(r))

------------------------------------------------------------------------------
(* Quiescence of two clones *)

\* a sync of clone r would create no commit: its HEAD is the remote branch or
\* ahead of it
NothingToCommit(r) == origin \in Ancestors(head[r])

\* C38: two clones of one remote that hold the same rows and whose feeds do
\* not change reach a quiescent state: from some point on a sync of either
\* clone creates no commit.
C38_EventuallyQuiescent == <>[](\A r \in Replicas : NothingToCommit(r))

\* the rows never differ, and every successful sync that moves the remote
\* branch leaves the other clone behind it
PushLeavesOtherBehind ==
    [][\A r \in Replicas :
          (SyncReturnsOk(r) /\ origin' # origin) =>
              /\ \A q \in Replicas : wt'[q] = SameRowsTree
              /\ \A q \in Replicas \ {r} : origin' \notin Ancestors(head'[q])]_vars

\* a clone that is merely behind the remote branch, with the rows the remote
\* holds, takes the merge path and creates a merge commit
BehindCloneMerges ==
    [][\A r \in Replicas :
          (MergeOurs(r) /\ graph_descendant_of(tracking[r], head[r])) =>
              /\ head'[r] = MergeCommit(r)
              /\ head'[r] \notin commits
              /\ TreeOf(head'[r]) = TreeOf(tracking[r])]_vars

------------------------------------------------------------------------------
(* SpecRetry: a clone that never fetched beside a clone that pushed *)

\* the working tree of a clone that subscribed to one feed
TreeWith(key) == SavedTree(EmptyTree, cmd_add(EmptyStore, key, 1))

\* clone A subscribed to feed "a" and made the first push; clone B, set up
\* with git init and the same remote, subscribed to feed "b" and never synced
InitRetry ==
    /\ TableIdle
    /\ MergeIdle
    /\ wt = [r \in Replicas |-> IF r = "A" THEN TreeWith("a") ELSE TreeWith("b")]
    /\ head = [r \in Replicas |->
                  IF r = "A" THEN Snapshot("A", TreeWith("a"), InitialCommit)
                  ELSE Snapshot("B", TreeWith("b"), NoCommit)]
    /\ origin = head["A"]
    /\ tracking = [r \in Replicas |-> IF r = "A" THEN head["A"] ELSE NoCommit]
    /\ commits = {InitialCommit, head["A"], head["B"]}
    /\ mem = [r \in Replicas |-> EmptyStore]
    /\ spc = [r \in Replicas |-> "idle"]
    /\ log = [r \in Replicas |-> <<>>]
    /\ scen = -1
    /\ edits = 0
    /\ NoCall
    /\ WithRemote
    /\ ItemShards

\* only sync runs, on either clone
NextRetry ==
    \/ \E r \in Replicas : SyncPull(r)
    \/ \E r \in Replicas : FirstPush(r)
    \/ \E r \in Replicas : SyncFetch(r)
    \/ \E r \in Replicas : SyncFetchFail(r)
    \/ \E r \in Replicas : UpToDate(r)
    \/ \E r \in Replicas : LocalAhead(r)
    \/ \E r \in Replicas : PushOnly(r)

\* the steps of one sync of clone r, whatever its fetch and push return
SyncRun(r) ==
    \/ Syncing(r)
    \/ FirstPush(r)
    \/ SyncFetchFail(r)

\* a sync that was started runs to its return, and each clone runs sync again
SpecRetry == InitRetry /\ [][NextRetry]_vars /\ \A r \in Replicas : WF_vars(SyncRun(r))

\* the clones of SpecRetry are clones SpecSync reaches
RetryStateNotReached ==
    ~ /\ wt = [r \in Replicas |-> IF r = "A" THEN TreeWith("a") ELSE TreeWith("b")]
      /\ head = [r \in Replicas |->
                    IF r = "A" THEN Snapshot("A", TreeWith("a"), InitialCommit)
                    ELSE Snapshot("B", TreeWith("b"), NoCommit)]
      /\ origin = head["A"]
      /\ tracking = [r \in Replicas |-> IF r = "A" THEN head["A"] ELSE NoCommit]
      /\ commits = {InitialCommit, head["A"], head["B"]}
      /\ mem = [r \in Replicas |-> EmptyStore]
      /\ spc = [r \in Replicas |-> "idle"]

------------------------------------------------------------------------------
(* A clone that never fetched *)

\* clone r is between two commands with a clean working tree, the remote
\* holds commits, and r has no remote-tracking branch: it never fetched them
NeverFetched(r) ==
    /\ spc[r] = "idle"
    /\ ensure_clean(wt[r], head[r])
    /\ origin # NoCommit
    /\ tracking[r] = NoCommit

\* C39: a clone with a clean working tree whose remote holds commits it never
\* fetched comes to a successful sync by running sync again and again: it
\* gets a remote-tracking branch, by a fetch or by an accepted push.
C39_EventuallySynced ==
    \A r \in Replicas : NeverFetched(r) ~> (tracking[r] # NoCommit)

\* in that state every sync goes to the first push, which the remote rejects,
\* and leaves the clone as it was: still without a remote-tracking branch
FirstPushRejectedAgain ==
    [][\A r \in Replicas :
          (tracking[r] = NoCommit /\ origin # NoCommit) =>
              /\ SyncPull(r) => spc'[r] = "first_push"
              /\ ~SyncFetch(r)
              /\ FirstPush(r) =>
                    /\ returned' = <<"sync", r, "PushError">>
                    /\ origin' = origin
                    /\ tracking'[r] = NoCommit]_vars

------------------------------------------------------------------------------
(* SpecSaveFail: a sync whose transaction can fail while it saves *)

\* cmd_sync up to the `?` of store.transaction(|tx| cmd_pull(tx, &pb))?: the
\* clean check passes, the feeds are pulled, and a save of the transaction
\* fails; sync returns that error before auto_commit runs
SyncPullFails(r) ==
    /\ spc[r] = "idle"
    /\ try_open_repo(r)
    /\ has_remote(r)
    /\ ensure_clean(wt[r], head[r])
    /\ \E st \in Opened(wt[r]), now \in 1..MaxClock :
        \E ok \in SUBSET items_of(st["feeds"]) :
            LET pulled == cmd_pull(st, ok, now)
            IN  /\ pulled # st => edits < MaxEdits
                /\ edits' = IF pulled # st THEN edits + 1 ELSE edits
                /\ mem' = [mem EXCEPT ![r] = pulled]
                /\ \E end \in {e \in transaction(wt[r], [store |-> pulled, ok |-> TRUE]) :
                                  e.result # "Ok"} :
                      /\ wt' = [wt EXCEPT ![r] = end.tree]
                      /\ returned' = <<"sync", r, end.result>>
    /\ UNCHANGED <<commits, origin, head, tracking, spc, log, scen, tableVars,
                   mergeVars, repo, self_shard_characters>>

NextSaveFail ==
    \/ \E r \in Clones, key \in SyncKeys, now \in 1..MaxClock : FeedAdd(r, key, now)
    \/ \E r \in Clones : SyncDirty(r)
    \/ \E r \in Clones : SyncPull(r)
    \/ \E r \in Clones : SyncPullFails(r)
    \/ \E r \in Clones : SyncFetch(r)
    \/ \E r \in Clones : SyncFetchFail(r)
    \/ \E r \in Clones : UpToDate(r)
    \/ \E r \in Clones : LocalAhead(r)
    \/ \E r \in Clones : PushOnly(r)

SpecSaveFail == InitStore /\ [][NextSaveFail]_vars

------------------------------------------------------------------------------
(* What a sync leaves uncommitted *)

\* the step is the return of a sync of clone r that passed the clean check
SyncReturns(r) ==
    \/ SyncPullFails(r)
    \/ spc[r] # "idle" /\ spc'[r] = "idle"

\* C40: a sync started on a clean working tree leaves no uncommitted
\* shard-file change behind, whatever it returns: the next sync passes the
\* clean check.
C40_SyncLeavesTreeClean ==
    [][\A r \in Clones : SyncReturns(r) => ensure_clean(wt'[r], head'[r])]_vars

\* a sync that returns after its pull transaction succeeded, with success or
\* with a fetch or push error, leaves the working tree clean
CleanAfterCommittedPull ==
    [][\A r \in Clones :
          (spc[r] # "idle" /\ spc'[r] = "idle") => ensure_clean(wt'[r], head'[r])]_vars

\* no sync is refused with the uncommitted-changes error: in SpecSaveFail only
\* a sync that a failed save ended leaves the working tree dirty
NextSyncNeverRefused ==
    ~ /\ returned = <<"sync", "A", "DirtyTree">>
      /\ ~ensure_clean(wt["A"], head["A"])

====
